---- MODULE Spec2Model ----
(***************************************************************************)
(* A model of y2t (YAML-to-Table): the filter engine and the sort of       *)
(* src/js/filtersort.js, the version hash of src/js/common.js and the page *)
(* handlers of src/js/main.js that drive them.                             *)
(*                                                                         *)
(* JavaScript strings are sequences of one-character strings, so that the  *)
(* tokenizer, the padding of the version hash and the string comparisons   *)
(* are computed character by character, as the code computes them.         *)
(***************************************************************************)
EXTENDS Integers, Sequences, FiniteSets, TLC

VARIABLES
  verA, verB,     \* two version strings handed to version2hash (as their parts)
  hashA, hashB,   \* what version2hash returned for them
  verPc,          \* "input" before version2hash ran, "hashed" after
  data,           \* data[]: the rows, each a function from column keys to cells
  display,        \* display[]: row indices in rendering order, bit 20 set on hidden rows
  rollsOver,      \* the Date of the engine rolls a day the month lacks over into the next
  filterInput,    \* the text in the input #filter
  filterError,    \* the paragraph #filter-error: hidden or not, and its text
  state,          \* the state object: view, sort, order, filter
  specsView,      \* yaml.specs.view: the keys of the columns shown
  outcome,        \* what the last call of filterData came to
  thrown,         \* the last handler ended by an uncaught exception
  hung,           \* a handler never returned: the page is frozen
  events,         \* the number of events the page has handled since it was opened
  call            \* the operation that led to this state and its arguments

verVars == << verA, verB, hashA, hashB, verPc >>
pageVars == << data, display, rollsOver, filterInput, filterError, state, specsView,
               outcome, thrown, hung, events, call >>
vars == << verA, verB, hashA, hashB, verPc, data, display, rollsOver, filterInput,
           filterError, state, specsView, outcome, thrown, hung, events, call >>

(***************************************************************************)
(* Characters and strings                                                  *)
(***************************************************************************)

\* the printable ASCII characters in code-unit order: Ascii[i] has code 31 + i
\* (the grave accent, code 96, is spelled out: no input of the model holds it)
Ascii ==
  << " ", "!", "\"", "#", "$", "%", "&", "'", "(", ")", "*", "+", ",", "-", ".", "/",
     "0", "1", "2", "3", "4", "5", "6", "7", "8", "9", ":", ";", "<", "=", ">", "?",
     "@", "A", "B", "C", "D", "E", "F", "G", "H", "I", "J", "K", "L", "M", "N", "O",
     "P", "Q", "R", "S", "T", "U", "V", "W", "X", "Y", "Z", "[", "\\", "]", "^", "_",
     "grave", "a", "b", "c", "d", "e", "f", "g", "h", "i", "j", "k", "l", "m", "n", "o",
     "p", "q", "r", "s", "t", "u", "v", "w", "x", "y", "z", "{", "|", "}", "~" >>

Chars == { Ascii[i] : i \in 1..Len(Ascii) }

\* the UTF-16 code unit of a character
CodeOf == [ c \in Chars |-> 31 + (CHOOSE i \in 1..Len(Ascii) : Ascii[i] = c) ]

IsDigit(c) == CodeOf[c] >= 48 /\ CodeOf[c] <= 57
IsUpperAlpha(c) == CodeOf[c] >= 65 /\ CodeOf[c] <= 90
IsLowerAlpha(c) == CodeOf[c] >= 97 /\ CodeOf[c] <= 122
IsAlpha(c) == IsUpperAlpha(c) \/ IsLowerAlpha(c)
\* the regular expression class \w
IsWordChar(c) == IsAlpha(c) \/ IsDigit(c) \/ c = "_"
\* the regular expression class \s (the inputs of the model hold no other white space)
IsSpace(c) == c = " "

UpperChar(c) == IF IsLowerAlpha(c) THEN Ascii[CodeOf[c] - 32 - 31] ELSE c

\* String.prototype.toUpperCase
toUpperCase(s) == [ i \in 1..Len(s) |-> UpperChar(s[i]) ]

Min(a, b) == IF a < b THEN a ELSE b
Max(a, b) == IF a > b THEN a ELSE b

\* String.prototype.repeat for a one-character string
Repeat(c, n) == [ i \in 1..n |-> c ]

\* String.prototype.substring(from, to) with 0 <= from <= to (0-based, to exclusive)
substring(s, from, to) ==
  LET a == Max(0, Min(from, Len(s)))
      b == Max(0, Min(to, Len(s)))
  IN  SubSeq(s, Min(a, b) + 1, Max(a, b))

\* a plausible slip in the padding of a group: the pad goes after the text
padStartLeftAligned(s, n, c) == IF Len(s) >= n THEN s ELSE s \o [ i \in 1..(n - Len(s)) |-> c ]

\* String.prototype.padStart / padEnd with a one-character pad string
padStart(s, n, c) == IF Len(s) >= n THEN s ELSE Repeat(c, n - Len(s)) \o s
padEnd(s, n, c) == IF Len(s) >= n THEN s ELSE s \o Repeat(c, n - Len(s))

\* the JavaScript relational comparison a < b of two strings: code unit by code unit,
\* a proper prefix being the smaller
RECURSIVE StrLess(_, _)
StrLess(a, b) ==
  IF Len(b) = 0 THEN FALSE
  ELSE IF Len(a) = 0 THEN TRUE
  ELSE IF a[1] # b[1] THEN CodeOf[a[1]] < CodeOf[b[1]]
  ELSE StrLess(Tail(a), Tail(b))

\* Array.prototype.join of strings with a separator string
RECURSIVE Join(_, _)
Join(parts, sep) ==
  IF Len(parts) = 0 THEN << >>
  ELSE IF Len(parts) = 1 THEN parts[1]
  ELSE parts[1] \o sep \o Join(Tail(parts), sep)

(***************************************************************************)
(* version2hash (src/js/common.js)                                         *)
(***************************************************************************)

\* how many dot separated groups of characters to consider
groups == 6
\* max amount of characters for each of the dot separated groups
padNum == 6
\* max amount of characters for the string after the optional dash
padAlph == 2

padChrLo == " "
padChrHi == "~"

hl == groups * padNum
hlExt == hl + padAlph
hlFull == hlExt + padNum

\* the hash of an empty or absent version
EmptyHash == Repeat(padChrLo, hl) \o Repeat(padChrHi, padAlph) \o Repeat(padChrLo, padNum)

\* one iteration of the for..of loop: st = [hash, group], char the current character
HashStep(st, char) ==
  IF Len(st.hash) < hl
  THEN IF char = "."
       THEN [ hash  |-> st.hash \o padStart(substring(st.group, 0, padNum), padNum, padChrLo),
              group |-> << >> ]
       ELSE IF char = "-"
       THEN [ hash  |-> padEnd(st.hash \o padStart(substring(st.group, 0, padNum), padNum, padChrLo),
                               hl, padChrLo),
              group |-> << >> ]
       ELSE [ hash |-> st.hash, group |-> Append(st.group, char) ]
  ELSE IF Len(st.hash) < hlExt
       THEN IF ~IsDigit(char)
            THEN [ hash |-> st.hash, group |-> Append(st.group, char) ]
            ELSE [ hash  |-> st.hash \o padEnd(substring(st.group, 0, padAlph), padAlph, padChrHi),
                   group |-> << char >> ]
       ELSE [ hash |-> st.hash, group |-> Append(st.group, char) ]

\* the for..of loop over the characters of the version string
RECURSIVE HashLoop(_, _)
HashLoop(st, str) ==
  IF Len(str) = 0 THEN st ELSE HashLoop(HashStep(st, str[1]), Tail(str))

\* what follows the loop: dump the last group, pad the main part, add the build field
HashFinish(st) ==
  LET h1 == IF Len(st.hash) < hl
            THEN LET d == st.hash \o padStart(substring(st.group, 0, padNum), padNum, padChrLo)
                 IN  IF Len(d) < hl
                     THEN padEnd(d, hl, padChrLo) \o Repeat(padChrHi, padAlph)
                                                  \o Repeat(padChrLo, padNum)
                     ELSE d
            ELSE st.hash
  IN  IF Len(h1) < hlFull
      THEN h1 \o padStart(substring(st.group, 0, padNum), padNum, padChrLo)
      ELSE h1

\* version2hash(ver) for a string ver; the empty string stands for every falsy argument
version2hash(ver) ==
  IF Len(ver) = 0 THEN EmptyHash
  ELSE HashFinish(HashLoop([ hash |-> << >>, group |-> << >> ], ver))


(***************************************************************************)
(* JavaScript values                                                       *)
(*                                                                         *)
(* A value is a record tagged with its type. A finite number n is held as  *)
(* two limbs, n = hi * 2^20 + lo with 0 <= lo < 2^20, so that 32-bit       *)
(* addresses and millisecond time stamps keep their full width.            *)
(***************************************************************************)

Limb == 1024 * 1024

Undefined == [ t |-> "undefined" ]
NaN == [ t |-> "NaN" ]
NegInfinity == [ t |-> "-Infinity" ]
Str(s) == [ t |-> "string", s |-> s ]
Bool(b) == [ t |-> "boolean", b |-> b ]
NumW(hi, lo) == [ t |-> "number", hi |-> hi, lo |-> lo ]
Num(n) == NumW(n \div Limb, n % Limb)
\* the RegExp object new RegExp(src, "i")
RegExpOf(src) == [ t |-> "regexp", src |-> src ]
\* an array of strings
Array(items) == [ t |-> "array", items |-> items ]

IsStr(v) == v.t = "string"
IsFinite(v) == v.t = "number"

NumLess(a, b) == a.hi < b.hi \/ (a.hi = b.hi /\ a.lo < b.lo)
NumAdd(a, b) == NumW(a.hi + b.hi + ((a.lo + b.lo) \div Limb), (a.lo + b.lo) % Limb)
\* a * k for a small k >= 0
NumMul(a, k) == NumW(a.hi * k + ((a.lo * k) \div Limb), (a.lo * k) % Limb)
NumNeg(a) == IF a.lo = 0 THEN NumW(0 - a.hi, 0) ELSE NumW(0 - a.hi - 1, Limb - a.lo)

\* String.prototype.trim
RECURSIVE TrimStart(_)
TrimStart(s) == IF Len(s) > 0 /\ IsSpace(s[1]) THEN TrimStart(Tail(s)) ELSE s
RECURSIVE TrimEnd(_)
TrimEnd(s) == IF Len(s) > 0 /\ IsSpace(s[Len(s)]) THEN TrimEnd(SubSeq(s, 1, Len(s) - 1)) ELSE s
trim(s) == TrimEnd(TrimStart(s))

\* the number a string of decimal digits denotes
RECURSIVE DigitsToNum(_)
DigitsToNum(s) ==
  IF Len(s) = 0 THEN Num(0)
  ELSE NumAdd(NumMul(DigitsToNum(SubSeq(s, 1, Len(s) - 1)), 10), Num(CodeOf[s[Len(s)]] - 48))

AllDigits(s) == \A i \in 1..Len(s) : IsDigit(s[i])

\* ToNumber of a string (what unary + and isNaN do to it): white space is trimmed, the
\* empty string is 0, an optionally signed run of decimal digits is its value, anything
\* else is NaN. (Hexadecimal, fractional and exponent literals and "Infinity" are left
\* to NaN here: no input of the model holds them.)
StringToNumber(s) ==
  LET Of(u) ==
        IF Len(u) = 0 THEN Num(0)
        ELSE IF AllDigits(u) THEN DigitsToNum(u)
        ELSE IF u[1] = "-" /\ Len(u) > 1 /\ AllDigits(Tail(u)) THEN NumNeg(DigitsToNum(Tail(u)))
        ELSE IF u[1] = "+" /\ Len(u) > 1 /\ AllDigits(Tail(u)) THEN DigitsToNum(Tail(u))
        ELSE NaN
  IN  Of(trim(s))

\* ToNumber
ToNumber(v) ==
  CASE v.t = "string"  -> StringToNumber(v.s)
    [] v.t = "boolean" -> IF v.b THEN Num(1) ELSE Num(0)
    [] v.t \in { "number", "NaN", "-Infinity" } -> v
    [] OTHER -> NaN

\* the longest prefix of s made of decimal digits
RECURSIVE DigitPrefix(_)
DigitPrefix(s) ==
  IF Len(s) > 0 /\ IsDigit(s[1]) THEN << s[1] >> \o DigitPrefix(Tail(s)) ELSE << >>

\* parseInt of a string: leading white space, an optional sign, then the longest run of
\* decimal digits; NaN when there is none
parseInt(s) ==
  LET Signed(neg, d) ==
        IF Len(d) = 0 THEN NaN
        ELSE IF neg THEN NumNeg(DigitsToNum(d)) ELSE DigitsToNum(d)
      Of(u) ==
        Signed(Len(u) > 0 /\ u[1] = "-",
               DigitPrefix(IF Len(u) > 0 /\ u[1] \in { "-", "+" } THEN Tail(u) ELSE u))
  IN  Of(TrimStart(s))

\* ToBoolean
ToBoolean(v) ==
  CASE v.t = "string"  -> Len(v.s) > 0
    [] v.t = "boolean" -> v.b
    [] v.t = "number" -> v # Num(0)
    [] v.t = "-Infinity" -> TRUE
    [] v.t = "regexp" -> TRUE
    [] OTHER -> FALSE

\* the strict equality a === b
StrictEquals(a, b) == a.t # "NaN" /\ a = b

\* the bits of a below 2^n and-ed / or-ed with those of b
RECURSIVE BitAnd(_, _, _)
BitAnd(a, b, n) ==
  IF n = 0 THEN 0
  ELSE 2 * BitAnd(a \div 2, b \div 2, n - 1) + (IF a % 2 = 1 /\ b % 2 = 1 THEN 1 ELSE 0)
RECURSIVE BitOr(_, _, _)
BitOr(a, b, n) ==
  IF n = 0 THEN 0
  ELSE 2 * BitOr(a \div 2, b \div 2, n - 1) + (IF a % 2 = 1 \/ b % 2 = 1 THEN 1 ELSE 0)

\* ToUint32: the value modulo 2^32 (NaN and the infinities give 0)
ToUint32(v) ==
  LET Of(x) == IF x.t = "number" THEN NumW(x.hi % 4096, x.lo) ELSE Num(0)
  IN  Of(ToNumber(v))
\* the signed reading of 32 bits (ToInt32), and v >>> 0
Int32Of(u) == IF u.hi >= 2048 THEN NumW(u.hi - 4096, u.lo) ELSE u
UnsignedShift0(v) == ToUint32(v)

\* a & b and a | b
JsBitAnd(a, b) ==
  LET Of(x, y) == Int32Of(NumW(BitAnd(x.hi, y.hi, 12), BitAnd(x.lo, y.lo, 20)))
  IN  Of(ToUint32(a), ToUint32(b))
JsBitOr(a, b) ==
  LET Of(x, y) == Int32Of(NumW(BitOr(x.hi, y.hi, 12), BitOr(x.lo, y.lo, 20)))
  IN  Of(ToUint32(a), ToUint32(b))



Null == [ t |-> "null" ]

\* ~a
JsBitNot(a) ==
  LET Of(x) == Int32Of(NumW(4095 - x.hi, Limb - 1 - x.lo))
  IN  Of(ToUint32(a))

\* a >>> n for 0 <= n < 32
UnsignedShiftRight(a, n) ==
  LET Of(x) ==
        IF n >= 20 THEN NumW(0, x.hi \div (2 ^ (n - 20)))
        ELSE NumW(x.hi \div (2 ^ n), (x.hi % (2 ^ n)) * (2 ^ (20 - n)) + x.lo \div (2 ^ n))
  IN  Of(ToUint32(a))

\* the decimal digits of a natural number below Limb
RECURSIVE NatToString(_)
NatToString(n) ==
  IF n < 10 THEN << Ascii[n + 17] >> ELSE NatToString(n \div 10) \o << Ascii[(n % 10) + 17] >>

\* the decimal digits of a number that is not negative
RECURSIVE DigitsOfNum(_)
DigitsOfNum(x) ==
  LET Of(r) ==
        IF x.hi = 0 /\ x.lo < 10 THEN NatToString(x.lo)
        ELSE DigitsOfNum(NumW(x.hi \div 10, r \div 10)) \o NatToString(r % 10)
  IN  Of((x.hi % 10) * Limb + x.lo)

\* String(v) / v.toString()
String(v) ==
  CASE v.t = "string" -> v.s
    [] v.t = "number" -> IF v.hi < 0 THEN << "-" >> \o DigitsOfNum(NumNeg(v)) ELSE DigitsOfNum(v)
    [] v.t = "NaN" -> << "N", "a", "N" >>
    [] v.t = "-Infinity" -> << "-", "I", "n", "f", "i", "n", "i", "t", "y" >>
    [] v.t = "boolean" -> IF v.b THEN << "t", "r", "u", "e" >> ELSE << "f", "a", "l", "s", "e" >>
    [] v.t = "undefined" -> << "u", "n", "d", "e", "f", "i", "n", "e", "d" >>
    [] v.t = "null" -> << "n", "u", "l", "l" >>
    [] v.t = "regexp" -> << "/" >> \o v.src \o << "/", "i" >>

JsLessNumbers(x, y) ==
  CASE x.t = "NaN" \/ y.t = "NaN" -> FALSE
    [] x.t = "-Infinity" -> y.t # "-Infinity"
    [] y.t = "-Infinity" -> FALSE
    [] OTHER -> NumLess(x, y)

JsLessPrimitives(pa, pb) ==
  IF IsStr(pa) /\ IsStr(pb) THEN StrLess(pa.s, pb.s)
  ELSE JsLessNumbers(ToNumber(pa), ToNumber(pb))

\* the relational comparison a < b; a RegExp object compares as its string
JsLess(a, b) ==
  JsLessPrimitives(IF a.t = "regexp" THEN Str(String(a)) ELSE a,
             IF b.t = "regexp" THEN Str(String(b)) ELSE b)

\* $typeOf(v)
typeOf(v) ==
  CASE v.t = "string" -> "String"
    [] v.t \in { "number", "NaN", "-Infinity" } -> "Number"
    [] v.t = "boolean" -> "Boolean"
    [] v.t = "undefined" -> "Undefined"
    [] v.t = "null" -> "Null"
    [] v.t = "regexp" -> "RegExp"
    [] v.t = "array" -> "Array"

\* isNaN(v)
isNaN(v) == ToNumber(v).t = "NaN"

(***************************************************************************)
(* The column schema (src/yml/specs.yml) and the operators                 *)
(***************************************************************************)

\* yaml.specs.table: columns of the demo table, one of each type and the two keys
\* (src, srcName) of which one is a prefix of the other
specsTable ==
  << [ key |-> << "i", "d" >>,      type |-> "int" ],
     [ key |-> << "s", "r", "c" >>,     type |-> "ip" ],
     [ key |-> << "s", "r", "c", "N", "a", "m", "e" >>, type |-> "str" ],
     [ key |-> << "p", "r", "o", "t", "o" >>,   type |-> "str" ],
     [ key |-> << "p", "o", "r", "t", "s" >>,   type |-> "intrange" ],
     [ key |-> << "v", "e", "r" >>,     type |-> "version" ],
     [ key |-> << "l", "a", "s", "t", "u", "p", "d" >>, type |-> "date" ] >>

ColumnKeys == { specsTable[i].key : i \in 1..Len(specsTable) }

\* typeMap: column key -> column type, as checkFilter fills it on its first run
typeMap == [ k \in ColumnKeys |-> (CHOOSE c \in { specsTable[i] : i \in 1..Len(specsTable) } : c.key = k).type ]

\* the keys of op, in the order the object literal lists them
opKeys == << << "=", "=" >>, << "=" >>, << "!", "=" >>, << "~" >>, << "!", "~" >>, << "@", "=" >>, << "<" >>, << ">" >>, << "A", "N", "D" >>, << "O", "R" >> >>

\* $hasProp(op, token) for a string token
IsOpString(s) == \E i \in 1..Len(opKeys) : opKeys[i] = s
\* $hasProp(op, v) for any value: the property key of a value that is not a string
\* (a number, a RegExp, undefined) is never an operator
HasOp(v) == IsStr(v) /\ IsOpString(v.s)

\* op[token]: the precedence of an operator

\* a plausible slip: the precedences of AND and OR exchanged
opPrecedenceSwapped(s) == IF s = << "A", "N", "D" >> THEN 1 ELSE IF s = << "O", "R" >> THEN 2 ELSE 3

opPrecedence(s) == IF s = << "A", "N", "D" >> THEN 2 ELSE IF s = << "O", "R" >> THEN 1 ELSE 3

\* token.match(/^[a-z]/i)
IsWordLike(s) == Len(s) > 0 /\ IsAlpha(s[1])
IsNotWordLike(s) == ~IsWordLike(s)

\* one token inserted into a list ordered by descending length, behind its equals
RECURSIVE InsertByLength(_, _)
InsertByLength(sorted, tok) ==
  IF Len(sorted) = 0 THEN << tok >>
  ELSE IF Len(tok) > Len(sorted[1]) THEN << tok >> \o sorted
  ELSE << sorted[1] >> \o InsertByLength(Tail(sorted), tok)

\* the (stable) sort in the order of descending token length
RECURSIVE SortByLengthDesc(_)
SortByLengthDesc(list) ==
  IF Len(list) = 0 THEN << >>
  ELSE InsertByLength(SortByLengthDesc(SubSeq(list, 1, Len(list) - 1)), list[Len(list)])

\* filterTokens.word and filterTokens.nonWord as filterData builds them once
filterTokensWord ==
  SortByLengthDesc([ i \in 1..Len(specsTable) |-> specsTable[i].key ] \o SelectSeq(opKeys, IsWordLike))
filterTokensNonWord == SortByLengthDesc(SelectSeq(opKeys, IsNotWordLike))

(***************************************************************************)
(* getTokens (src/js/filtersort.js)                                        *)
(***************************************************************************)

NoMatch == [ len |-> 0, token |-> << >> ]

\* how many white space characters str starts with
RECURSIVE LeadingSpaces(_)
LeadingSpaces(str) ==
  IF Len(str) > 0 /\ IsSpace(str[1]) THEN 1 + LeadingSpaces(Tail(str)) ELSE 0

StartsWith(str, p) == Len(str) >= Len(p) /\ SubSeq(str, 1, Len(p)) = p
\* the same under the flag "i"
StartsWithNoCase(str, p) ==
  Len(str) >= Len(p) /\ toUpperCase(SubSeq(str, 1, Len(p))) = toUpperCase(p)

\* the first alternative of alts that str starts with, << >> when there is none
RECURSIVE FirstAlternative(_, _)
FirstAlternative(str, alts) ==
  IF Len(alts) = 0 THEN << >>
  ELSE IF StartsWith(str, alts[1]) THEN alts[1]
  ELSE FirstAlternative(str, Tail(alts))

\* "[^"]*" at the start of str: the text up to the next double quote, << >> when str
\* does not start with a quote or the quote is never closed
QuotedPrefix(str) ==
  IF Len(str) >= 2 /\ str[1] = "\"" /\ (\E j \in 2..Len(str) : str[j] = "\"")
  THEN SubSeq(str, 1, CHOOSE j \in 2..Len(str) :
                         str[j] = "\"" /\ \A i \in 2..(j - 1) : str[i] # "\"")
  ELSE << >>

\* regex.nonWords: ^\s*("[^"]*"|<nonWordTokens>|!\(|NOT\(|\)|\()\s*
MatchNonWords(str, nonWordTokens) ==
  LET Found(lead, rest, core) ==
        IF Len(core) = 0 THEN NoMatch
        ELSE [ len |-> lead + Len(core) + LeadingSpaces(SubSeq(rest, Len(core) + 1, Len(rest))),
               token |-> core ]
      Core(rest, quoted) ==
        IF Len(quoted) > 0 THEN quoted
        ELSE FirstAlternative(rest, nonWordTokens \o << << "!", "(" >>, << "N", "O", "T", "(" >>, << ")" >>, << "(" >> >>)
      Rest(lead, rest) == Found(lead, rest, Core(rest, QuotedPrefix(rest)))
      Lead(lead) == Rest(lead, SubSeq(str, lead + 1, Len(str)))
  IN  Lead(LeadingSpaces(str))

\* \b between the characters i and i + 1 of str
WordBoundary(str, i) ==
  (i >= 1 /\ i <= Len(str) /\ IsWordChar(str[i]))
    # (i + 1 >= 1 /\ i + 1 <= Len(str) /\ IsWordChar(str[i + 1]))

\* \s*\b after the first p characters of str: the longest run of white space that
\* ends at a word boundary; -1 when there is none
WordEnd(str, p) ==
  LET Last(ends) ==
        IF ends = { } THEN 0 - 1
        ELSE p + (CHOOSE j \in ends : \A i \in ends : i <= j)
      Of(k) == Last({ j \in 0..k : WordBoundary(str, p + j) })
  IN  Of(LeadingSpaces(SubSeq(str, p + 1, Len(str))))

\* the alternatives of regex.words tried in order
RECURSIVE FirstWord(_, _)
FirstWord(str, alts) ==
  LET Ends(end) ==
        IF StartsWithNoCase(str, alts[1]) /\ end >= 0
        THEN [ len |-> end, token |-> SubSeq(str, 1, Len(alts[1])) ]
        ELSE FirstWord(str, Tail(alts))
  IN  IF Len(alts) = 0 THEN NoMatch ELSE Ends(WordEnd(str, Len(alts[1])))

\* regex.words: ^\b\s*(<wordTokens>)\s*\b under the flag "i"; after ^\b the first
\* character is a word character, so the first \s* is empty
MatchWords(str, wordTokens) ==
  IF WordBoundary(str, 0) THEN FirstWord(str, wordTokens) ELSE NoMatch

\* the longest prefix of str without white space and parentheses
RECURSIVE BarePrefix(_)
BarePrefix(str) ==
  IF Len(str) > 0 /\ ~IsSpace(str[1]) /\ str[1] # "(" /\ str[1] # ")"
  THEN << str[1] >> \o BarePrefix(Tail(str))
  ELSE << >>

\* regex.unquoted: ^\s*([^\s()]+)
MatchUnquoted(str) ==
  LET Found(lead, run) ==
        IF Len(run) = 0 THEN NoMatch ELSE [ len |-> lead + Len(run), token |-> run ]
      Lead(lead) == Found(lead, BarePrefix(SubSeq(str, lead + 1, Len(str))))
  IN  Lead(LeadingSpaces(str))

\* one iteration of the while loop: the token found at the start of str
NextToken(str, wordTokens, nonWordTokens) ==
  LET First(nw, w, u) ==
        IF nw.len > 0 THEN nw
        ELSE IF w.len > 0 THEN w
        ELSE IF u.len > 0 THEN u
        ELSE [ len |-> Len(str), token |-> trim(str) ]
  IN  First(MatchNonWords(str, nonWordTokens), MatchWords(str, wordTokens), MatchUnquoted(str))

\* the while loop over the rest of the input
RECURSIVE TokenLoop(_, _, _)
TokenLoop(str, wordTokens, nonWordTokens) ==
  LET Rest(m) ==
        << m.token >> \o TokenLoop(SubSeq(str, m.len + 1, Len(str)), wordTokens, nonWordTokens)
  IN  IF Len(str) = 0 THEN << >>
      ELSE Rest(NextToken(str, wordTokens, nonWordTokens))

getTokens(input, wordTokens, nonWordTokens) ==
  IF Len(wordTokens) = 0 \/ Len(nonWordTokens) = 0 THEN << >>
  ELSE TokenLoop(input, wordTokens, nonWordTokens)


(***************************************************************************)
(* tokensToRPN (src/js/filtersort.js)                                      *)
(***************************************************************************)

IsOpenParen(s, sUpper) == s = << "(" >> \/ s = << "!", "(" >> \/ sUpper = << "N", "O", "T", "(" >>

\* while ($hasProp(op, peek(stack)) && op[tokenUpper] <= op[peek(stack)]) output.push(stack.pop())
\* the stack grows to the right: peek(stack) is its last element
RECURSIVE PopOperators(_, _)
PopOperators(st, tokenUpper) ==
  IF Len(st.stack) > 0 /\ IsOpString(st.stack[Len(st.stack)])
                       /\ opPrecedence(tokenUpper) <= opPrecedence(st.stack[Len(st.stack)])
  THEN PopOperators([ st EXCEPT !.output = Append(@, Str(st.stack[Len(st.stack)])),
                                !.stack = SubSeq(@, 1, Len(@) - 1) ], tokenUpper)
  ELSE st

\* while (peek(stack) is none of "(", "!(", "NOT(") output.push(stack.pop())
\* on an empty stack peek() is undefined, which is none of the three, and pop() gives
\* undefined again: the loop pushes undefined for ever and never returns
RECURSIVE PopToParen(_)
PopToParen(st) ==
  IF Len(st.stack) = 0 THEN [ st EXCEPT !.hang = TRUE ]
  ELSE IF st.stack[Len(st.stack)] \in { << "(" >>, << "!", "(" >>, << "N", "O", "T", "(" >> } THEN st
  ELSE PopToParen([ st EXCEPT !.output = Append(@, Str(st.stack[Len(st.stack)])),
                              !.stack = SubSeq(@, 1, Len(@) - 1) ])


\* a plausible slip: only the opening form "!(" is taken for the negated one
RPNStepBangOnly(st, token) ==
  LET Pushed(p, tokenUpper) == [ p EXCEPT !.stack = Append(@, tokenUpper) ]
      Closed(p) ==
        IF p.hang THEN p
        ELSE [ p EXCEPT !.stack = SubSeq(@, 1, Len(@) - 1),
                        !.output = IF p.stack[Len(p.stack)] = << "!", "(" >>
                                   THEN Append(@, Str(<< "!" >>)) ELSE @ ]
      Of(tokenUpper) ==
        IF IsOpString(tokenUpper) THEN Pushed(PopOperators(st, tokenUpper), tokenUpper)
        ELSE IF IsOpenParen(token, tokenUpper) THEN [ st EXCEPT !.stack = Append(@, token) ]
        ELSE IF token = << ")" >> THEN Closed(PopToParen(st))
        ELSE [ st EXCEPT !.output = Append(@, Str(token)) ]
  IN  Of(toUpperCase(token))

\* the callback of tokens.reduce for one token
RPNStep(st, token) ==
  LET Pushed(p, tokenUpper) == [ p EXCEPT !.stack = Append(@, tokenUpper) ]
      Closed(p) ==
        IF p.hang THEN p
        ELSE [ p EXCEPT !.stack = SubSeq(@, 1, Len(@) - 1),
                        !.output = IF p.stack[Len(p.stack)] # << "(" >>
                                   THEN Append(@, Str(<< "!" >>)) ELSE @ ]
      Of(tokenUpper) ==
        IF IsOpString(tokenUpper) THEN Pushed(PopOperators(st, tokenUpper), tokenUpper)
        ELSE IF IsOpenParen(token, tokenUpper) THEN [ st EXCEPT !.stack = Append(@, token) ]
        ELSE IF token = << ")" >> THEN Closed(PopToParen(st))
        ELSE [ st EXCEPT !.output = Append(@, Str(token)) ]
  IN  Of(toUpperCase(token))

RECURSIVE RPNLoop(_, _)
RPNLoop(st, tokens) ==
  IF Len(tokens) = 0 \/ st.hang THEN st
  ELSE RPNLoop(RPNStep(st, tokens[1]), Tail(tokens))

Reverse(s) == [ i \in 1..Len(s) |-> s[Len(s) + 1 - i] ]

\* tokensToRPN(tokens): hang tells that the call never returns; otherwise rpn is the
\* array returned, a sequence of string values
tokensToRPN(tokens) ==
  LET Flushed(st, rest) ==
        [ hang |-> st.hang,
          rpn |-> IF st.hang THEN << >> ELSE st.output \o [ i \in 1..Len(rest) |-> Str(rest[i]) ] ]
      Of(st) == Flushed(st, Reverse(st.stack))
  IN  Of(RPNLoop([ output |-> << >>, stack |-> << >>, hang |-> FALSE ], tokens))

(***************************************************************************)
(* What checkFilter converts operands with                                 *)
(***************************************************************************)

\* String.prototype.split for a separator of one character
RECURSIVE Split(_, _)
Split(s, sep) ==
  LET At(i) == << SubSeq(s, 1, i - 1) >> \o Split(SubSeq(s, i + 1, Len(s)), sep)
  IN  IF \E i \in 1..Len(s) : s[i] = sep
      THEN At(CHOOSE i \in 1..Len(s) : s[i] = sep /\ \A j \in 1..(i - 1) : s[j] # sep)
      ELSE << s >>

\* x * k + y for numbers x, y that may be NaN, k a small natural number
MulAdd(x, k, y) ==
  IF x.t = "number" /\ y.t = "number" THEN NumAdd(NumMul(x, k), y) ELSE NaN

ip2longOf(octet) ==
  IF Len(octet) = 4
  THEN MulAdd(MulAdd(MulAdd(StringToNumber(octet[1]), 256, StringToNumber(octet[2])),
                     256, StringToNumber(octet[3])),
              256, StringToNumber(octet[4]))
  ELSE Num(0)

\* ip2long (src/js/common.js)
ip2long(ip) ==
  ip2longOf(Split(ip, "."))

\* /^\d{4}-\d{2}-\d{2}$/
IsDateFormat(s) ==
  /\ Len(s) = 10
  /\ \A i \in { 1, 2, 3, 4, 6, 7, 9, 10 } : IsDigit(s[i])
  /\ s[5] = "-" /\ s[8] = "-"

SmallInt(s) == DigitsToNum(s).lo

IsLeapYear(y) == (y % 4 = 0 /\ y % 100 # 0) \/ y % 400 = 0
DaysInMonth(y, m) ==
  IF m = 2 THEN (IF IsLeapYear(y) THEN 29 ELSE 28)
  ELSE IF m \in { 4, 6, 9, 11 } THEN 30 ELSE 31

\* the number of the day y-m-d counted from 1970-01-01 (the proleptic Gregorian calendar)
DaysFromCivil(y, m, d) ==
  LET yy == IF m <= 2 THEN y - 1 ELSE y
      era == yy \div 400
      yoe == yy - era * 400
      mp == (m + 9) % 12
      doy == (153 * mp + 2) \div 5 + d - 1
      doe == yoe * 365 + yoe \div 4 - yoe \div 100 + doy
  IN  era * 146097 + doe - 719468

DateTimeNoon ==
  Num(43200000)

DateTimeAt(days) ==
  IF days >= 0
  THEN NumAdd(NumMul(NumMul(NumMul(Num(days), 864), 1000), 100), DateTimeNoon)
  ELSE NumAdd(NumNeg(NumMul(NumMul(NumMul(Num(0 - days), 864), 1000), 100)), DateTimeNoon)

DateTimeOf(rollOver, y, m, d) ==
  IF m < 1 \/ m > 12 \/ d < 1 \/ d > 31 THEN NaN
  ELSE IF d > DaysInMonth(y, m) /\ ~rollOver THEN NaN
  ELSE DateTimeAt(DaysFromCivil(y, m, 1) + d - 1)

\* new Date(s + "T12:00:00Z").getTime() for s of the form YYYY-MM-DD.  A month outside
\* 01..12 or a day outside 01..31 is an invalid date in every engine.  For a day of
\* 29..31 that the month does not have, ECMAScript leaves the result to the engine:
\* some roll over into the next month (rollOver), the others give an invalid date.
DateTime(s, rollOver) ==
  DateTimeOf(rollOver, SmallInt(SubSeq(s, 1, 4)), SmallInt(SubSeq(s, 6, 7)), SmallInt(SubSeq(s, 9, 10)))

\* new RegExp(src, "i") throws.  The patterns of the model are made of literal
\* characters, "." and the anchors "^" and "$"; the malformed ones among its inputs
\* start with a quantifier, open a class or a group that is never closed, or close a
\* group that was never opened.
RegExpThrows(src) ==
  \/ Len(src) > 0 /\ src[1] \in { "*", "+", "?" }
  \/ \E i \in 1..Len(src) : src[i] = "[" /\ \A j \in (i + 1)..Len(src) : src[j] # "]"
  \/ Cardinality({ i \in 1..Len(src) : src[i] = "(" }) # Cardinality({ i \in 1..Len(src) : src[i] = ")" })

\* regexp.test(str) for such a pattern under the flag "i"
RegExpTest(src, str) ==
  LET atStart == Len(src) > 0 /\ src[1] = "^"
      atEnd == Len(src) > (IF atStart THEN 1 ELSE 0) /\ src[Len(src)] = "$"
      body == SubSeq(src, (IF atStart THEN 2 ELSE 1), (IF atEnd THEN Len(src) - 1 ELSE Len(src)))
      up == toUpperCase(str)
      ub == toUpperCase(body)
      fits(p) == /\ p + Len(body) - 1 <= Len(str)
                 /\ \A i \in 1..Len(body) : body[i] = "." \/ ub[i] = up[p + i - 1]
                 /\ (atEnd => p + Len(body) - 1 = Len(str))
  IN  \E p \in 1..(IF atStart THEN 1 ELSE Len(str) + 1) : fits(p)


(***************************************************************************)
(* checkFilter (src/js/filtersort.js)                                      *)
(***************************************************************************)

\* {token: "", idx: -1}: the placeholder for the result of a nested operation.  The
\* other entries of the stack carry the position of their token in filterRPN, counted
\* from 1 here.
Placeholder == [ token |-> << >>, idx |-> 0 - 1 ]

\* filterRPN[idx] = v; with idx = -1 the assignment makes a property "-1" of the array
\* and changes none of its elements
SetRPN(rpn, idx, v) == IF idx = 0 - 1 THEN rpn ELSE [ rpn EXCEPT ![idx] = v ]

Failed(st, message) == [ st EXCEPT !.result = Str(message) ]


\* typeMap[key] || "str"
TypeOfKey(key) == IF key \in DOMAIN typeMap THEN typeMap[key] ELSE "str"

\* the branch for the operators "<" and ">"
CheckLessGreater(st, o1, o2, tok, rollOver) ==
  LET Ip(value) ==
        IF ~ToBoolean(value) THEN Failed(st, << "B", "a", "d", " ", "I", "P", " ", "a", "d", "d", "r", "e", "s", "s", ":", " " >> \o tok)
        ELSE [ st EXCEPT !.rpn = SetRPN(@, o2.idx, value) ]
      \* the bounds are 934366740000 and 2147483647000
      Date(value) ==
        IF \/ ~ToBoolean(value)
           \/ NumLess(value, NumW(891081, 589344))
           \/ NumLess(NumW(2047999, 1047576), value)
        THEN Failed(st, << "U", "n", "s", "u", "p", "p", "o", "r", "t", "e", "d", " ", "d", "a", "t", "e", ":", " " >> \o tok)
        ELSE [ st EXCEPT !.rpn = SetRPN(@, o2.idx, value) ]
      Whole(n) == [ st EXCEPT !.rpn = SetRPN(@, o2.idx, IF ToBoolean(n) THEN n ELSE Num(0)) ]
  IN  CASE TypeOfKey(o1.token) = "ip" -> Ip(ip2long(tok))
        [] TypeOfKey(o1.token) = "date" ->
             IF ~IsDateFormat(tok)
             THEN Failed(st, << "B", "a", "d", " ", "d", "a", "t", "e", " ", "f", "o", "r", "m", "a", "t", " ", "(", "u", "s", "e", " ", "Y", "Y", "Y", "Y", "-", "M", "M", "-", "D", "D", ")", ":", " " >> \o tok)
             ELSE Date(DateTime(tok, rollOver))
        [] TypeOfKey(o1.token) \in { "int", "intrange" } -> Whole(parseInt(tok))
        [] TypeOfKey(o1.token) = "version" ->
             [ st EXCEPT !.rpn = SetRPN(@, o2.idx, Str(version2hash(tok))) ]
        [] TypeOfKey(o1.token) = "str" ->
             [ st EXCEPT !.rpn = SetRPN(@, o2.idx, Str(toUpperCase(tok))) ]
        [] OTHER -> st


\* the conversion of the literal tok of the operand o2 that the operator token asks for
CheckLiteral(popped, token, o1, o2, tok, rollOver) ==
  LET Network(value) ==
        IF ~ToBoolean(value) THEN Failed(popped, << "B", "a", "d", " ", "I", "P", " ", "a", "d", "d", "r", "e", "s", "s", ":", " " >> \o tok)
        ELSE [ popped EXCEPT !.rpn = SetRPN(@, o2.idx, value) ]
  IN  CASE token \in { << "=", "=" >>, << "=" >>, << "!", "=" >> } ->
             [ popped EXCEPT !.rpn = SetRPN(@, o2.idx, Str(toUpperCase(tok))) ]
        [] token \in { << "~" >>, << "!", "~" >> } ->
             IF RegExpThrows(tok) THEN Failed(popped, << "I", "n", "v", "a", "l", "i", "d", " ", "r", "e", "g", "u", "l", "a", "r", " ", "e", "x", "p", "r", "e", "s", "s", "i", "o", "n", ":", " " >> \o tok)
             ELSE [ popped EXCEPT !.rpn = SetRPN(@, o2.idx, RegExpOf(tok)) ]
        [] token \in { << "<" >>, << ">" >> } -> CheckLessGreater(popped, o1, o2, tok, rollOver)
        [] token = << "@", "=" >> ->
             IF ~(o1.token \in DOMAIN typeMap /\ typeMap[o1.token] = "ip")
             THEN Failed(popped, << "@", "=", " ", "o", "p", "e", "r", "a", "t", "o", "r", " ", "c", "a", "n", " ", "o", "n", "l", "y", " ", "b", "e", " ", "u", "s", "e", "d", " ", "w", "i", "t", "h", " ", "I", "P", "-", "l", "i", "k", "e", " ", "f", "i", "e", "l", "d", "s" >>)
             ELSE Network(ip2long(tok))
        [] OTHER -> popped

\* stack.push({token: "", idx: -1}) when the conversion has not failed
CheckPushed(converted) ==
  IF converted.result # Bool(TRUE) THEN converted
  ELSE [ converted EXCEPT !.stack = Append(@, Placeholder) ]

\* the check of the field name o1.token and of the literal tok, the token of o2 less
\* its quotes
CheckField(base, token, o1, o2, quoted, tok, rollOver) ==
  IF o1.idx # 0 - 1 /\ o1.token \notin DOMAIN typeMap
  THEN Failed(base, << "I", "n", "v", "a", "l", "i", "d", " ", "f", "i", "e", "l", "d", " ", "n", "a", "m", "e", ":", " " >> \o o1.token)
  ELSE CheckPushed(CheckLiteral([ base EXCEPT !.rpn = IF quoted THEN SetRPN(@, o2.idx, Str(tok)) ELSE @ ],
                                token, o1, o2, tok, rollOver))

\* the operands o1 and o2 are popped off the stack
CheckOperands(st, token, o1, o2, rollOver) ==
  CheckField([ st EXCEPT !.stack = SubSeq(@, 1, Len(@) - 2) ], token, o1, o2,
             Len(o2.token) > 0 /\ o2.token[1] = "\"",
             IF Len(o2.token) > 0 /\ o2.token[1] = "\""
             THEN substring(o2.token, 1, Len(o2.token) - 1) ELSE o2.token,
             rollOver)

\* the branch of the callback for a token that is a key of op
CheckOperator(st, token, rollOver) ==
  IF Len(st.stack) < 2 THEN Failed(st, << "F", "i", "l", "t", "e", "r", " ", "s", "y", "n", "t", "a", "x", " ", "e", "r", "r", "o", "r", " ", "(", "1", ")" >>)
  ELSE CheckOperands(st, token, st.stack[Len(st.stack) - 1], st.stack[Len(st.stack)], rollOver)

\* the callback of filterRPN.every for the token at position index
CheckStep(st, index, rollOver) ==
  IF IsOpString(st.rpn[index].s) THEN CheckOperator(st, st.rpn[index].s, rollOver)
  ELSE IF st.rpn[index].s = << "!" >>
  THEN IF Len(st.stack) < 1 THEN Failed(st, << "F", "i", "l", "t", "e", "r", " ", "s", "y", "n", "t", "a", "x", " ", "e", "r", "r", "o", "r", " ", "(", "2", ")" >>)
       ELSE [ st EXCEPT !.stack = Append(SubSeq(@, 1, Len(@) - 1), Placeholder) ]
  ELSE [ st EXCEPT !.stack = Append(@, [ token |-> st.rpn[index].s, idx |-> index ]) ]

\* every() stops at the first callback that returns false
RECURSIVE CheckLoop(_, _, _)
CheckLoop(st, index, rollOver) ==
  IF index > Len(st.rpn) \/ st.result # Bool(TRUE) THEN st
  ELSE CheckLoop(CheckStep(st, index, rollOver), index + 1, rollOver)

\* checkFilter(filterRPN): result is the value returned, rpn is filterRPN as the call
\* leaves it
checkFilter(filterRPN, rollOver) ==
  LET Of(st) ==
        [ result |-> IF st.result = Bool(TRUE) /\ Len(st.stack) # 1
                     THEN Str(<< "F", "i", "l", "t", "e", "r", " ", "s", "y", "n", "t", "a", "x", " ", "e", "r", "r", "o", "r", " ", "(", "3", ")" >>) ELSE st.result,
          rpn |-> st.rpn ]
  IN  Of(CheckLoop([ result |-> Bool(TRUE), stack |-> << >>, rpn |-> filterRPN ], 1, rollOver))


(***************************************************************************)
(* What normalizeValue derives the representations of a cell with          *)
(* (src/js/common.js)                                                      *)
(***************************************************************************)

\* escapeHtml: the text is made the content of an element and serialised as HTML
RECURSIVE escapeHtml(_)
escapeHtml(text) ==
  IF Len(text) = 0 THEN << >>
  ELSE (CASE text[1] = "&" -> << "&", "a", "m", "p", ";" >>
          [] text[1] = "<" -> << "&", "l", "t", ";" >>
          [] text[1] = ">" -> << "&", "g", "t", ";" >>
          [] OTHER -> << text[1] >>) \o escapeHtml(Tail(text))

\* html2text: the string is parsed as HTML and the text content is read back.  Tags
\* are dropped and the character references of escapeHtml are decoded; scripts, styles
\* and other character references are outside the model.
RECURSIVE html2text(_)
html2text(html) ==
  IF Len(html) = 0 THEN << >>
  ELSE IF html[1] = "<" /\ Len(html) > 1 /\ (IsAlpha(html[2]) \/ html[2] \in { "/", "!" })
  THEN IF \E i \in 1..Len(html) : html[i] = ">"
       THEN html2text(SubSeq(html, 1 + (CHOOSE i \in 1..Len(html) :
                                          html[i] = ">" /\ \A j \in 1..(i - 1) : html[j] # ">"),
                             Len(html)))
       ELSE << >>
  ELSE IF StartsWith(html, << "&", "a", "m", "p", ";" >>) THEN << "&" >> \o html2text(SubSeq(html, 6, Len(html)))
  ELSE IF StartsWith(html, << "&", "l", "t", ";" >>) THEN << "<" >> \o html2text(SubSeq(html, 5, Len(html)))
  ELSE IF StartsWith(html, << "&", "g", "t", ";" >>) THEN << ">" >> \o html2text(SubSeq(html, 5, Len(html)))
  ELSE << html[1] >> \o html2text(Tail(html))

\* the number of decimal digits s holds from position p on
RECURSIVE DigitRun(_, _)
DigitRun(s, p) == IF p <= Len(s) /\ IsDigit(s[p]) THEN 1 + DigitRun(s, p + 1) ELSE 0

\* the number of characters other than digits s holds from position p on
RECURSIVE NonDigitRun(_, _)
NonDigitRun(s, p) == IF p <= Len(s) /\ ~IsDigit(s[p]) THEN 1 + NonDigitRun(s, p + 1) ELSE 0

\* RegExp("([0-9]+)([^0-9]+([0-9]+))?").exec(s): found tells whether there is a match,
\* m1 is matches[1], m3 is matches[3] with << >> for undefined
intrangeExec(s) ==
  LET Third(p, n, gap, n3) ==
        [ found |-> TRUE,
          m1 |-> SubSeq(s, p, p + n - 1),
          m3 |-> IF gap > 0 /\ n3 > 0 THEN SubSeq(s, p + n + gap, p + n + gap + n3 - 1)
                 ELSE << >> ]
      Gap(p, n, gap) == Third(p, n, gap, DigitRun(s, p + n + gap))
      First(p, n) == Gap(p, n, NonDigitRun(s, p + n))
      At(p) == First(p, DigitRun(s, p))
  IN  IF \A i \in 1..Len(s) : ~IsDigit(s[i]) THEN [ found |-> FALSE, m1 |-> << >>, m3 |-> << >> ]
      ELSE At(CHOOSE i \in 1..Len(s) : IsDigit(s[i]) /\ \A j \in 1..(i - 1) : ~IsDigit(s[j]))

\* \d{1,3}\. at position p where the whole run of digits has to be taken: the position
\* behind the dot, 0 when there is no match
OctetDot(s, p) ==
  LET Of(n) == IF n >= 1 /\ n <= 3 /\ p + n <= Len(s) /\ s[p + n] = "." THEN p + n + 1 ELSE 0
  IN  Of(DigitRun(s, p))

\* \d{1,3}\.\d{1,3}\.\d{1,3}\.\d{1,3}(?!\d) at position p: the position of the last
\* character matched, 0 when there is no match
QuadAt(s, p) ==
  LET Last(p4, n) == IF p4 # 0 /\ n >= 1 /\ n <= 3 THEN p4 + n - 1 ELSE 0
      Fourth(p4) == Last(p4, IF p4 = 0 THEN 0 ELSE DigitRun(s, p4))
      Third(p3) == Fourth(IF p3 = 0 THEN 0 ELSE OctetDot(s, p3))
      Second(p2) == Third(IF p2 = 0 THEN 0 ELSE OctetDot(s, p2))
  IN  Second(OctetDot(s, p))

\* ((\d{1,3})(\.\d{1,3}\.\d{1,3}\.\d{1,3})?) at position p: the position of the last
\* character matched, 0 when there is no match.  The digits are taken greedily, three
\* of them at most.
MaskAt(s, p) ==
  LET Last(n, q, q3, n4) ==
        IF n = 0 THEN 0
        ELSE IF n4 > 0 THEN q3 + n4 - 1
        ELSE q - 1
      Third(n, q, q3) == Last(n, q, q3, IF q3 = 0 THEN 0 ELSE Min(3, DigitRun(s, q3)))
      Second(n, q, q2) == Third(n, q, IF q2 = 0 THEN 0 ELSE OctetDot(s, q2))
      First(n, q) == Second(n, q, IF q <= Len(s) /\ s[q] = "." THEN OctetDot(s, q + 1) ELSE 0)
      Of(n) == First(n, p + n)
  IN  Of(Min(3, DigitRun(s, p)))

ipExecMask(s, p, e, slash, m) ==
  [ found |-> TRUE,
    m1 |-> SubSeq(s, p, e),
    m3 |-> IF m = 0 THEN << >> ELSE SubSeq(s, slash + 1, m) ]

ipExecSlash(s, p, e, slash) ==
  ipExecMask(s, p, e, slash, IF slash <= Len(s) /\ s[slash] = "/" THEN MaskAt(s, slash + 1) ELSE 0)

ipExecQuad(s, p, e) ==
  ipExecSlash(s, p, e, e + 1 + LeadingSpaces(SubSeq(s, e + 1, Len(s))))

\* ends[p] is where the dotted quad at position p ends, 0 when there is none
ipExecOf(s, ends) ==
  IF \A p \in 1..Len(s) : ends[p] = 0 THEN [ found |-> FALSE, m1 |-> << >>, m3 |-> << >> ]
  ELSE ipExecQuad(s, CHOOSE i \in 1..Len(s) : ends[i] # 0 /\ \A j \in 1..(i - 1) : ends[j] = 0,
            ends[CHOOSE i \in 1..Len(s) : ends[i] # 0 /\ \A j \in 1..(i - 1) : ends[j] = 0])

\* the exec of the regular expression of the 'ip' type: found tells whether there is a
\* match, m1 is matches[1] (the address), m3 is matches[3] (the mask) with << >> for
\* undefined
ipExec(s) ==
  ipExecOf(s, [ p \in 1..Len(s) |-> QuadAt(s, p) ])

\* CIDRmasks[bits] = ~(0xFFFFFFFF >>> bits) >>> 0
CIDRmasks(bits) == UnsignedShift0(JsBitNot(UnsignedShiftRight(NumW(4095, Limb - 1), bits)))

\* cidr2long(suffix)
cidr2long(suffix) ==
  IF suffix.t = "number" /\ suffix.hi = 0 /\ suffix.lo > 0 /\ suffix.lo < 32
  THEN CIDRmasks(suffix.lo)
  ELSE NumW(4095, Limb - 1)

\* the day, month and year of the day numbered z from 1970-01-01
CivilFromDays(z) ==
  LET zz == z + 719468
      era == zz \div 146097
      doe == zz - era * 146097
      yoe == (doe - doe \div 1460 + doe \div 36524 - doe \div 146096) \div 365
      doy == doe - (365 * yoe + yoe \div 4 - yoe \div 100)
      mp == (5 * doy + 2) \div 153
      d == doy - (153 * mp + 2) \div 5 + 1
      m == IF mp < 10 THEN mp + 3 ELSE mp - 9
      y == yoe + era * 400 + (IF m <= 2 THEN 1 ELSE 0)
  IN  [ y |-> y, m |-> m, d |-> d ]

formatDateTwo(n) ==
  padStart(NatToString(n), 2, "0")

formatDateOf(c) ==
  padStart(NatToString(c.y), 4, "0") \o << "-" >> \o formatDateTwo(c.m) \o << "-" >> \o formatDateTwo(c.d)

\* formatDate(date) for the time value ms when moment.js is not loaded:
\* date.toISOString().replace(/T.*/, ""), for the years 0000 to 9999
formatDate(ms) ==
  formatDateOf(CivilFromDays((ms.hi * 1024 + ms.lo \div 1024) \div 84375))


(***************************************************************************)
(* normalizeValue (src/js/common.js)                                       *)
(*                                                                         *)
(* A cell is a record of the properties it has.  A raw cell is either a    *)
(* bare value (the shorthand form) or such a record.                       *)
(***************************************************************************)

\* yaml.specs.options
specsOptions == [ htmlAlt |-> Str(<< "?" >>) ]

\* $typeOf(raw) === "Object"
IsObject(raw) == "t" \notin DOMAIN raw

\* $hasProp(cell, f) && $typeOf(cell[f]) === "String"
HasString(cell, f) == f \in DOMAIN cell /\ typeOf(cell[f]) = "String"
\* $hasProp(cell, f) && $typeOf(cell[f]) === "Number" && !isNaN(cell[f])
HasNumber(cell, f) == f \in DOMAIN cell /\ typeOf(cell[f]) = "Number" /\ ~isNaN(cell[f])

\* cell[f] when keep holds, else the value derived
Kept(cell, f, keep, derived) == IF keep THEN cell[f] ELSE derived

\* the properties in fields assigned to the cell
Assign(cell, fields) == fields @@ cell

\* the properties in names deleted from the cell
Delete(cell, names) ==
  IF DOMAIN cell \cap names = { } THEN cell
  ELSE [ f \in DOMAIN cell \ names |-> cell[f] ]

\* cell.match = html2text(cell.html).toUpperCase()
MatchOfHtml(html) == Str(toUpperCase(html2text(html)))

\* cell.cssClass.push("bad-value")
Bad(cell) == [ cell EXCEPT !.cssClass = Array(Append(@.items, << "b", "a", "d", "-", "v", "a", "l", "u", "e" >>)) ]

\* the html and match that every String branch keeps or derives
HtmlOf(cell, derived) == Kept(cell, "html", HasString(cell, "html"), Str(derived))
MatchOf(cell, html) == Kept(cell, "match", HasString(cell, "match"), MatchOfHtml(html.s))

normalizeIntParsed(cell, n) ==
  Assign(cell, [ html |-> Str(String(n)), cmp |-> n, match |-> n ])

normalizeIntNoNumber(cell, html) ==
  Bad(Assign(cell, [ html |-> Str(html), cmp |-> NegInfinity, match |-> MatchOfHtml(html) ]))

normalizeIntText(cell, s) ==
  Assign(cell, [ html |-> HtmlOf(cell, s),
                 cmp |-> Kept(cell, "cmp", HasNumber(cell, "cmp"), cell.value),
                 match |-> Kept(cell, "match", HasString(cell, "match"),
                                Str(toUpperCase(s))) ])

normalizeInt(cell) ==
  IF cell.type = "Number" /\ ~isNaN(cell.value) THEN normalizeIntText(cell, String(cell.value))
  ELSE IF cell.type = "String"
  THEN IF ~isNaN(cell.value) THEN normalizeIntParsed(cell, parseInt(cell.value.s))
       ELSE normalizeIntNoNumber(cell, escapeHtml(cell.value.s))
  ELSE Assign(cell, [ html |-> Undefined, cmp |-> NegInfinity, match |-> Undefined ])

normalizeIntrangeRange(cell, matches, rangeMin) ==
  IF matches.found
  THEN Assign(cell, [ html |-> HtmlOf(cell, escapeHtml(cell.value.s)),
                      cmpMin |-> Kept(cell, "cmpMin", HasNumber(cell, "cmpMin"), rangeMin),
                      cmpMax |-> Kept(cell, "cmpMax", HasNumber(cell, "cmpMax"),
                                      IF Len(matches.m3) > 0 THEN parseInt(matches.m3)
                                      ELSE rangeMin),
                      match |-> Kept(cell, "match", HasString(cell, "match"),
                                     Str(toUpperCase(cell.value.s))) ])
  ELSE Bad(Assign(cell, [ html |-> Str(escapeHtml(cell.value.s)),
                          cmpMin |-> NegInfinity, cmpMax |-> NegInfinity,
                          match |-> MatchOfHtml(escapeHtml(cell.value.s)) ]))

normalizeIntrangeMatched(cell, matches) ==
  normalizeIntrangeRange(cell, matches, parseInt(matches.m1))

normalizeIntrange(cell) ==
  IF cell.type = "Number" /\ ~isNaN(cell.value)
  THEN Assign(cell, [ html |-> HtmlOf(cell, String(cell.value)),
                      cmpMin |-> Kept(cell, "cmpMin", HasNumber(cell, "cmpMin"), cell.value),
                      cmpMax |-> Kept(cell, "cmpMax", HasNumber(cell, "cmpMax"), cell.value),
                      match |-> Kept(cell, "match", HasString(cell, "match"),
                                     Str(toUpperCase(String(cell.value)))) ])
  ELSE IF cell.type = "String" THEN normalizeIntrangeMatched(cell, intrangeExec(cell.value.s))
  ELSE Assign(cell, [ html |-> Undefined, cmpMin |-> NegInfinity, cmpMax |-> NegInfinity,
                      match |-> Undefined ])

normalizeIpMarked(ipAddr, done) ==
  IF ~ToBoolean(ipAddr) THEN Bad(done) ELSE done

\* the third test of the guard of mask reads the type of cmpMax, which is a
\* Number by then
normalizeIpMasked(cell, html, ipAddr, ipMask) ==
  normalizeIpMarked(ipAddr,
         Assign(cell,
           [ html |-> html, match |-> MatchOf(cell, html),
             cmpMin |-> Kept(cell, "cmpMin", HasNumber(cell, "cmpMin"),
                             UnsignedShift0(JsBitAnd(ipAddr, ipMask))),
             cmpMax |-> Kept(cell, "cmpMax", HasNumber(cell, "cmpMax"),
                             UnsignedShift0(JsBitOr(ipAddr, JsBitNot(ipMask)))),
             mask |-> Kept(cell, "mask", "mask" \in DOMAIN cell /\ ~isNaN(cell.mask),
                           ipMask) ]))

normalizeIpParts(cell, html, ipAddr, maskStr) ==
  normalizeIpMasked(cell, html, ipAddr,
         IF \E i \in 1..Len(maskStr) : maskStr[i] = "."
         THEN ip2long(maskStr) ELSE cidr2long(parseInt(maskStr)))

normalizeIpMatched(cell, html, matches) ==
  normalizeIpParts(cell, html,
        IF matches.found THEN ip2long(matches.m1) ELSE Num(0),
        IF matches.found /\ Len(matches.m3) > 0 THEN matches.m3 ELSE << "3", "2" >>)

normalizeIp(cell) ==
  IF cell.type = "String"
  THEN normalizeIpMatched(cell, HtmlOf(cell, escapeHtml(cell.value.s)), ipExec(cell.value.s))
  ELSE Assign(cell, [ html |-> Undefined, cmpMin |-> NegInfinity, cmpMax |-> NegInfinity,
                      match |-> Undefined ])


\* the text has the form YYYY-MM-DDTHH:MM:SSZ with a time of the day
IsDateTimeFormat(s) ==
  /\ Len(s) = 20 /\ IsDateFormat(SubSeq(s, 1, 10))
  /\ s[11] = "T" /\ s[14] = ":" /\ s[17] = ":" /\ s[20] = "Z"
  /\ \A i \in { 12, 13, 15, 16, 18, 19 } : IsDigit(s[i])
  /\ SmallInt(SubSeq(s, 12, 13)) < 24 /\ SmallInt(SubSeq(s, 15, 16)) < 60
  /\ SmallInt(SubSeq(s, 18, 19)) < 60

\* the time of the day of such a text, in milliseconds
TimeOfDay(s) ==
  Num((SmallInt(SubSeq(s, 12, 13)) * 3600 + SmallInt(SubSeq(s, 15, 16)) * 60
         + SmallInt(SubSeq(s, 18, 19))) * 1000)

\* new Date(s).getTime() for a string s that is not of the form YYYY-MM-DD: the time
\* of a text YYYY-MM-DDTHH:MM:SSZ (noon of the day, less twelve hours, plus the time of
\* the day; the days of the model are not before 1970-01-02), NaN for what is no
\* date.  The strings of the model are in no other notation of a date.
DateParse(s, rollOver) ==
  IF IsDateTimeFormat(s) /\ DateTime(SubSeq(s, 1, 10), rollOver).t = "number"
  THEN NumAdd(NumAdd(DateTime(SubSeq(s, 1, 10), rollOver), NumNeg(DateTimeNoon)), TimeOfDay(s))
  ELSE NaN

normalizeDateFormatted(cell, ms, html) ==
  Assign(cell, [ html |-> html,
                 cmp |-> Kept(cell, "cmp", HasNumber(cell, "cmp"), ms),
                 match |-> MatchOf(cell, html) ])

normalizeDateStamp(cell, ms) ==
  normalizeDateFormatted(cell, ms, HtmlOf(cell, escapeHtml(formatDate(ms))))

normalizeDateTimed(cell, time, done) ==
  IF time.t # "NaN"
  THEN Assign(done, [ cmp |-> Kept(cell, "cmp", HasNumber(cell, "cmp"), time) ])
  ELSE Bad(Assign(done, [ cmp |-> Num(0) ]))

normalizeDateText(cell, rollOver, html) ==
  normalizeDateTimed(cell, IF IsDateFormat(cell.value.s) THEN DateTime(cell.value.s, rollOver)
                           ELSE DateParse(cell.value.s, rollOver),
        Assign(cell, [ html |-> html, match |-> MatchOf(cell, html) ]))

\* Date objects are not among the values of the model.  A string that is not of the
\* form YYYY-MM-DD goes to the Date constructor as it is (DateParse).
normalizeDate(cell, rollOver) ==
  IF cell.type = "Number" /\ JsLess(Num(0), cell.value)
  \* 10000000000 is NumW(9536, 779264)
  THEN normalizeDateStamp(cell, IF NumLess(cell.value, NumW(9536, 779264)) THEN NumMul(cell.value, 1000)
             ELSE cell.value)
  ELSE IF cell.type = "String" THEN normalizeDateText(cell, rollOver, HtmlOf(cell, escapeHtml(cell.value.s)))
  ELSE Assign(cell, [ cmp |-> Num(0), match |-> Undefined, html |-> Undefined ])

normalizeVersionOf(cell, html) ==
  Assign(cell, [ html |-> html,
                 cmp |-> Kept(cell, "cmp", HasString(cell, "cmp"),
                              Str(version2hash(String(cell.value)))),
                 match |-> MatchOf(cell, html) ])

normalizeVersion(cell) ==
  IF cell.type = "String" \/ (cell.type = "Number" /\ JsLess(Num(0), cell.value))
  THEN normalizeVersionOf(cell, HtmlOf(cell, escapeHtml(String(cell.value))))
  ELSE Assign(cell, [ cmp |-> Str(<< >>), match |-> Undefined, html |-> Undefined ])

normalizeStrOf(cell, html) ==
  Assign(cell, [ html |-> html,
                 cmp |-> Kept(cell, "cmp", HasString(cell, "cmp"),
                              Str(toUpperCase(cell.value.s))),
                 match |-> MatchOf(cell, html) ])

normalizeStrText(cell, s) ==
  Assign(cell, [ html |-> Str(escapeHtml(s)),
                cmp |-> Str(toUpperCase(s)),
                match |-> Str(toUpperCase(s)) ])

normalizeStr(cell) ==
  IF cell.type = "String" THEN normalizeStrOf(cell, HtmlOf(cell, escapeHtml(cell.value.s)))
  ELSE IF (cell.type = "Number" /\ ~isNaN(cell.value)) \/ cell.type = "Boolean"
  THEN normalizeStrText(cell, String(cell.value))
  ELSE Assign(cell, [ cmp |-> Str(<< >>), match |-> Undefined, html |-> Undefined ])

\* the characters of the name of a type
TypeName(type) ==
  CASE type = "String" -> << "S", "t", "r", "i", "n", "g" >>
    [] type = "Number" -> << "N", "u", "m", "b", "e", "r" >>
    [] type = "Boolean" -> << "B", "o", "o", "l", "e", "a", "n" >>
    [] type = "Null" -> << "N", "u", "l", "l" >>
    [] type = "Undefined" -> << "U", "n", "d", "e", "f", "i", "n", "e", "d" >>
    [] type = "RegExp" -> << "R", "e", "g", "E", "x", "p" >>

HtmlFallbackOf(cell, html) ==
  Bad([ cell EXCEPT !.html = Str(html), !.match = MatchOfHtml(html) ])

\* the fallback for a cell left without .html: the htmlAlt of the cell, then that of
\* the column, then that of the table, then the name of the type of the value
HtmlFallback(cell, column) ==
  IF cell.html # Undefined THEN cell
  ELSE HtmlFallbackOf(cell, IF HasString(cell, "htmlAlt") THEN cell.htmlAlt.s
          ELSE IF HasString(column, "htmlAlt") THEN column.htmlAlt.s
          ELSE IF HasString(specsOptions, "htmlAlt") THEN specsOptions.htmlAlt.s
          ELSE TypeName(cell.type))

\* value2array(obj, "cssClass"): an array is kept, a string that is not empty becomes
\* the array of it, anything else the empty array
value2array(obj) ==
  Assign(obj, [ cssClass |-> IF "cssClass" \in DOMAIN obj /\ obj.cssClass.t = "array" THEN obj.cssClass
                             ELSE IF HasString(obj, "cssClass") /\ Len(obj.cssClass.s) > 0
                             THEN Array(<< obj.cssClass.s >>)
                             ELSE Array(<< >>) ])

\* the first lines of normalizeValue: the raw cell as an object with .value, .type
\* and the array .cssClass
CellObject(raw) ==
  LET Typed(obj, value) ==
        value2array(Assign(obj, [ type |-> typeOf(value), value |-> value ]))
      Of(obj) == Typed(obj, IF "value" \in DOMAIN obj THEN obj.value ELSE Undefined)
  IN  Of(IF IsObject(raw)
         THEN IF "value" \notin DOMAIN raw /\ HasString(raw, "html")
              THEN Assign(raw, [ value |-> Str(html2text(raw.html.s)) ])
              ELSE raw
         ELSE [ value |-> raw ])

normalizeValueRanged(column, ranged) ==
  IF column.type # "ip" THEN Delete(ranged, { "mask" }) ELSE ranged


\* a plausible slip: a cmp supplied for a ranged type is left in the cell
normalizeValueFilledKeepsCmp(column, filled) ==
  normalizeValueRanged(column, IF column.type \in { "intrange", "ip" } THEN filled
         ELSE Delete(filled, { "cmpMin", "cmpMax" }))

normalizeValueFilled(column, filled) ==
  normalizeValueRanged(column, IF column.type \in { "intrange", "ip" } THEN Delete(filled, { "cmp" })
         ELSE Delete(filled, { "cmpMin", "cmpMax" }))

normalizeValueOf(column, rollOver, cell) ==
  normalizeValueFilled(column, HtmlFallback(CASE column.type = "int" -> normalizeInt(cell)
                        [] column.type = "intrange" -> normalizeIntrange(cell)
                        [] column.type = "ip" -> normalizeIp(cell)
                        [] column.type = "date" -> normalizeDate(cell, rollOver)
                        [] column.type = "version" -> normalizeVersion(cell)
                        [] OTHER -> normalizeStr(cell),
                      column))

\* normalizeValue(row, column) as a function of the raw cell row[column.key]: the cell
\* it leaves in the row
normalizeValue(raw, column, rollOver) ==
  normalizeValueOf(column, rollOver, CellObject(raw))

\* the properties among html, match, cmp, cmpMin, cmpMax that normalizeValue assigns
\* to the cell whatever it holds: the assignments of the branches that no test of the
\* present property guards
normalizeValueAssigns(cell, column, rollOver) ==
  CASE column.type = "int" ->
         IF cell.type = "Number" /\ ~isNaN(cell.value) THEN { } ELSE { "html", "cmp", "match" }
    [] column.type = "intrange" ->
         IF cell.type = "Number" /\ ~isNaN(cell.value) THEN { }
         ELSE IF cell.type = "String" /\ intrangeExec(cell.value.s).found THEN { }
         ELSE { "html", "cmpMin", "cmpMax", "match" }
    [] column.type = "ip" ->
         IF cell.type = "String" THEN { } ELSE { "html", "cmpMin", "cmpMax", "match" }
    [] column.type = "date" ->
         IF cell.type = "Number" /\ JsLess(Num(0), cell.value) THEN { }
         ELSE IF cell.type = "String"
         THEN (IF (IF IsDateFormat(cell.value.s) THEN DateTime(cell.value.s, rollOver)
                   ELSE DateParse(cell.value.s, rollOver)).t # "NaN"
               THEN { } ELSE { "cmp" })
         ELSE { "cmp", "match", "html" }
    [] column.type = "version" ->
         IF cell.type = "String" \/ (cell.type = "Number" /\ JsLess(Num(0), cell.value)) THEN { }
         ELSE { "cmp", "match", "html" }
    [] OTHER ->
         IF cell.type = "String" THEN { } ELSE { "html", "cmp", "match" }

(***************************************************************************)
(* runFilter and filterData (src/js/filtersort.js)                         *)
(***************************************************************************)

\* the 21st bit of an entry of display[], set for a row the filter hides
hiddenBit == 1048576

\* stack.pop() and what it leaves of the stack
Top(stack) == IF Len(stack) = 0 THEN Undefined ELSE stack[Len(stack)]
Pop(stack) == IF Len(stack) = 0 THEN stack ELSE SubSeq(stack, 1, Len(stack) - 1)

\* data[rowID][o1]: the property of the row that o1 names, undefined when the row has
\* none (a row of the model has its cells and nothing else)
Property(row, o1) == IF String(o1) \in DOMAIN row THEN row[String(o1)] ELSE Undefined

\* the operation of one operator on the operands o1 and o2 for one row: thrown tells
\* that a TypeError is thrown (a property of undefined is read, or test is called on a
\* value that is no RegExp), res is the result otherwise
Returned(b) == [ thrown |-> FALSE, res |-> Bool(b) ]
Thrown == [ thrown |-> TRUE, res |-> Undefined ]


\* a plausible slip: the address is compared with the start of the range as it is
OperateSubnetUnmasked(o2, cell) ==
  StrictEquals(IF "cmpMin" \in DOMAIN cell THEN cell.cmpMin ELSE Undefined, UnsignedShift0(o2))

\* the case "@=" of operate: cell.cmpMin === (o2 & cell.mask) >>> 0
OperateSubnet(o2, cell) ==
  StrictEquals(IF "cmpMin" \in DOMAIN cell THEN cell.cmpMin ELSE Undefined,
               UnsignedShift0(JsBitAnd(o2, IF "mask" \in DOMAIN cell
                                           THEN cell.mask ELSE Undefined)))

\* a plausible slip: a range is below the literal as soon as its start is
OperateLessFromStart(o2, cell) ==
  JsLess(IF "cmpMin" \in DOMAIN cell THEN cell.cmpMin ELSE cell.cmp, o2)

\* the case "<" of operate: cmpMax of the cell if it has one, or else cmp, < o2
OperateLess(o2, cell) ==
  JsLess(IF "cmpMax" \in DOMAIN cell THEN cell.cmpMax ELSE cell.cmp, o2)

\* the case ">" of operate: cmpMin of the cell if it has one, or else cmp, > o2
OperateGreater(o2, cell) ==
  JsLess(o2, IF "cmpMin" \in DOMAIN cell THEN cell.cmpMin ELSE cell.cmp)

OperateOf(token, o2, cell) ==
  IF cell = Undefined THEN Thrown
  ELSE CASE token \in { << "=" >>, << "=", "=" >> } -> Returned(StrictEquals(cell.match, o2))
         [] token = << "!", "=" >> -> Returned(~StrictEquals(cell.match, o2))
         [] token = << "~" >> ->
              IF o2.t # "regexp" THEN Thrown
              ELSE Returned(RegExpTest(o2.src, String(cell.match)))
         [] token = << "!", "~" >> ->
              IF o2.t # "regexp" THEN Thrown
              ELSE Returned(~RegExpTest(o2.src, String(cell.match)))
         [] token = << "@", "=" >> -> Returned(OperateSubnet(o2, cell))
         [] token = << "<" >> -> Returned(OperateLess(o2, cell))
         [] token = << ">" >> -> Returned(OperateGreater(o2, cell))

Operate(token, o1, o2, row) ==
  CASE token = << "A", "N", "D" >> -> [ thrown |-> FALSE, res |-> JsBitAnd(o1, o2) ]
    [] token = << "O", "R" >> -> [ thrown |-> FALSE, res |-> JsBitOr(o1, o2) ]
    [] OTHER -> OperateOf(token, o2, Property(row, o1))

RunStepOf(st, r) ==
  IF r.thrown THEN [ st EXCEPT !.thrown = TRUE ]
  ELSE [ st EXCEPT !.stack = Append(Pop(Pop(@)), r.res) ]

\* the callback of filterRPN.forEach for one token; st.thrown ends the evaluation
RunStep(st, token, row) ==
  IF st.thrown THEN st
  ELSE IF HasOp(token)
  THEN RunStepOf(st, Operate(token.s, Top(Pop(st.stack)), Top(st.stack), row))
  ELSE IF token = Str(<< "!" >>)
  THEN [ st EXCEPT !.stack = Append(Pop(@), Bool(~ToBoolean(Top(@)))) ]
  ELSE [ st EXCEPT !.stack = Append(@, token) ]

RECURSIVE RunTokens(_, _, _)
RunTokens(st, tokens, row) ==
  IF Len(tokens) = 0 THEN st ELSE RunTokens(RunStep(st, tokens[1], row), Tail(tokens), row)

\* the stack the expression leaves for one row
EvalRow(filterRPN, row) == RunTokens([ stack |-> << >>, thrown |-> FALSE ], filterRPN, row)

\* a plausible slip: the callback of display.every returns the result of the row, and
\* the loop ends at the first row that is hidden
RunRowsOfReturnsResult(st, key, e) ==
  IF e.thrown THEN [ st EXCEPT !.stop = TRUE, !.thrown = TRUE ]
  ELSE IF Len(e.stack) = 1
  THEN [ st EXCEPT !.display[key] =
                     IF ToBoolean(e.stack[1]) THEN @ % hiddenBit ELSE (@ % hiddenBit) + hiddenBit,
                   !.stop = ~ToBoolean(e.stack[1]) ]
  ELSE [ st EXCEPT !.stop = TRUE, !.result = Str(<< "F", "i", "l", "t", "e", "r", " ", "s", "y", "n", "t", "a", "x", " ", "e", "r", "r", "o", "r", " ", "(", "4", ")" >>) ]

RECURSIVE RunRows(_, _, _, _)
RunRowsOf(st, key, e) ==
  IF e.thrown THEN [ st EXCEPT !.stop = TRUE, !.thrown = TRUE ]
  ELSE IF Len(e.stack) = 1
  THEN [ st EXCEPT !.display[key] =
           IF ToBoolean(e.stack[1]) THEN @ % hiddenBit ELSE (@ % hiddenBit) + hiddenBit ]
  ELSE [ st EXCEPT !.stop = TRUE, !.result = Str(<< "F", "i", "l", "t", "e", "r", " ", "s", "y", "n", "t", "a", "x", " ", "e", "r", "r", "o", "r", " ", "(", "4", ")" >>) ]

\* the callback of display.every for the rows from position key on; st.stop tells that
\* the loop has ended (an error was returned or an exception thrown)
RunRows(st, key, filterRPN, rows) ==
  IF key > Len(st.display) \/ st.stop THEN st
  ELSE RunRows(RunRowsOf(st, key, EvalRow(filterRPN, rows[(st.display[key] % hiddenBit) + 1])),
               key + 1, filterRPN, rows)

\* runFilter(filterRPN) on display[] = disp and data[] = rows: the value returned (or
\* thrown set) and display[] as the call leaves it
runFilter(filterRPN, disp, rows) ==
  RunRows([ result |-> Bool(TRUE), display |-> disp, stop |-> FALSE, thrown |-> FALSE ],
          1, filterRPN, rows)

filterDataUnchanged(disp) ==
  [ outcome |-> "returned", result |-> Bool(FALSE), display |-> disp,
    checked |-> Undefined ]

filterDataRan(checked, ran) ==
  IF ran.thrown
  THEN [ outcome |-> "thrown", result |-> Undefined, display |-> ran.display,
         checked |-> checked.result ]
  ELSE [ outcome |-> "returned", result |-> ran.result, display |-> ran.display,
         checked |-> checked.result ]


\* a plausible slip: a filter that fails the check resets the hidden bits
filterDataCheckedClears(disp, rows, checked) ==
  IF checked.result # Bool(TRUE)
  THEN [ filterDataUnchanged(disp) EXCEPT !.result = checked.result, !.checked = checked.result,
                                         !.display = [ key \in 1..Len(disp) |-> disp[key] % hiddenBit ] ]
  ELSE filterDataRan(checked, runFilter(checked.rpn, disp, rows))

filterDataChecked(disp, rows, checked) ==
  IF checked.result # Bool(TRUE)
  THEN [ filterDataUnchanged(disp) EXCEPT !.result = checked.result, !.checked = checked.result ]
  ELSE filterDataRan(checked, runFilter(checked.rpn, disp, rows))

filterDataParsed(disp, rows, rollOver, parsed) ==
  IF parsed.hang THEN [ filterDataUnchanged(disp) EXCEPT !.outcome = "hang", !.result = Undefined ]
  ELSE filterDataChecked(disp, rows, checkFilter(parsed.rpn, rollOver))


\* a plausible slip: a comparison of three tokens is not taken for a filter
filterDataTokensOverThree(disp, rows, rollOver, tokens) ==
  IF ~(Len(tokens) > 3) THEN filterDataUnchanged(disp)
  ELSE filterDataParsed(disp, rows, rollOver, tokensToRPN(tokens))

filterDataTokens(disp, rows, rollOver, tokens) ==
  IF ~(Len(tokens) > 2) THEN filterDataUnchanged(disp)
  ELSE filterDataParsed(disp, rows, rollOver, tokensToRPN(tokens))

\* filterData(filter): outcome is "returned" with the value in result, "thrown" when a
\* TypeError leaves the call, "hang" when the call never returns; display is display[]
\* as the call leaves it; checked is what checkFilter returned, undefined when it was
\* not called or did not return
filterData(filter, disp, rows, rollOver) ==
  IF filter = << >> THEN filterDataUnchanged(disp)
  ELSE filterDataTokens(disp, rows, rollOver, getTokens(filter, filterTokensWord, filterTokensNonWord))


(***************************************************************************)
(* sortData (src/js/filtersort.js)                                         *)
(***************************************************************************)

\* the value the comparator reads for the entry a of display[]: the property is chosen
\* by the cell of the first argument of the comparator, firstCell
SortKey(a, firstCell, colKey, order, rows) ==
  LET cell == rows[(a % hiddenBit) + 1][colKey]
      prop == IF "cmpMin" \in DOMAIN firstCell THEN (IF order = 1 THEN "cmpMin" ELSE "cmpMax")
              ELSE "cmp"
  IN  IF prop \in DOMAIN cell THEN cell[prop] ELSE Undefined

compareKeys(order, x, y) ==
  IF order = 1
  THEN (IF JsLess(y, x) THEN 1 ELSE IF JsLess(x, y) THEN 0 - 1 ELSE 0)
  ELSE (IF JsLess(x, y) THEN 1 ELSE IF JsLess(y, x) THEN 0 - 1 ELSE 0)

compareOf(a, b, colKey, order, rows, firstCell) ==
  compareKeys(order, SortKey(a, firstCell, colKey, order, rows), SortKey(b, firstCell, colKey, order, rows))

\* the callback given to display.sort: 1, -1 or 0
compare(a, b, colKey, order, rows) ==
  compareOf(a, b, colKey, order, rows, rows[(a % hiddenBit) + 1][colKey])


\* the entries of display[]
Entries(disp) == { disp[i] : i \in 1..Len(disp) }

\* c[a, b] is what the comparator returns for a and b of S: the requirements ECMAScript
\* makes of a consistent comparison function
Consistent(S, c) ==
  /\ \A a \in S : c[a, a] = 0
  /\ \A a, b \in S : (c[a, b] = 0 => c[b, a] = 0) /\ (c[a, b] < 0 => c[b, a] > 0)
  /\ \A a, b, d \in S :
       /\ (c[a, b] = 0 /\ c[b, d] = 0) => c[a, d] = 0
       /\ (c[a, b] < 0 /\ c[b, d] < 0) => c[a, d] < 0
       /\ (c[a, b] > 0 /\ c[b, d] > 0) => c[a, d] > 0

\* the comparator is a consistent comparison function for the entries of disp, in the
\* words of ECMAScript (Array.prototype.sort)
ConsistentComparator(disp, colKey, order, rows) ==
  Consistent(Entries(disp),
             [ a \in Entries(disp), b \in Entries(disp) |-> compare(a, b, colKey, order, rows) ])

\* one entry put into a sorted list behind every entry it is not less than
RECURSIVE InsertSorted(_, _, _, _, _)
InsertSorted(sorted, e, colKey, order, rows) ==
  IF Len(sorted) = 0 THEN << e >>
  ELSE IF compare(e, sorted[1], colKey, order, rows) < 0 THEN << e >> \o sorted
  ELSE << sorted[1] >> \o InsertSorted(Tail(sorted), e, colKey, order, rows)

\* the stable sort of disp by the comparator
RECURSIVE StableSort(_, _, _, _)
StableSort(disp, colKey, order, rows) ==
  IF Len(disp) = 0 THEN << >>
  ELSE InsertSorted(StableSort(SubSeq(disp, 1, Len(disp) - 1), colKey, order, rows),
                    disp[Len(disp)], colKey, order, rows)

\* the arrangements of the entries of disp
Arrangements(disp) ==
  { [ i \in 1..Len(disp) |-> disp[p[i]] ] :
      p \in { q \in [ 1..Len(disp) -> 1..Len(disp) ] :
                \A i, j \in 1..Len(disp) : q[i] = q[j] => i = j } }

\* sortData(colKey, order): what display[] may be after the call.  With a consistent
\* comparator Array.prototype.sort is a stable sort; with any other the order of the
\* result is left to the implementation.
sortData(colKey, order, disp, rows) ==
  IF ConsistentComparator(disp, colKey, order, rows)
  THEN { StableSort(disp, colKey, order, rows) }
  ELSE Arrangements(disp)


(***************************************************************************)
(* The page (src/js/main.js)                                               *)
(*                                                                         *)
(* A world is a record of what the handlers read and write: display[],     *)
(* data[], the text of the input #filter, the paragraph #filter-error, the *)
(* state object, yaml.specs.view, what the last call of filterData came    *)
(* to, and whether a handler ended by an exception (thrown) or never       *)
(* ended (hung).  A handler is a function from a world to the set of       *)
(* worlds it may leave.                                                    *)
(***************************************************************************)

\* yaml.specs.views: the names of the views and their lists of column keys
specsViews ==
  [ default |-> << "p", "a", "r", "t", "i", "a", "l" >>,
    lists |-> [ v \in { << "p", "a", "r", "t", "i", "a", "l" >>, << "m", "i", "n", "i", "m", "a", "l" >> } |->
                  IF v = << "p", "a", "r", "t", "i", "a", "l" >> THEN << << "i", "d" >>, << "p", "o", "r", "t", "s" >>, << "a", "b", "s", "e", "n", "t" >> >>
                  ELSE << << "v", "e", "r" >>, << "s", "r", "c" >> >> ] ]

\* sortOrder[order]
sortOrder(order) == IF order = << "a", "s", "c" >> THEN 1 ELSE 0

NoState == [ view |-> Undefined, sort |-> Undefined, order |-> Undefined, filter |-> Undefined ]
NoOutcome == [ outcome |-> "none", result |-> Undefined, checked |-> Undefined, filter |-> << >> ]
HiddenError == [ hidden |-> TRUE, text |-> << >> ]

\* the keys of the columns of a list of column keys that the table has, in the order
\* of the list
RECURSIVE FoundColumns(_)
FoundColumns(keys) ==
  IF Len(keys) = 0 THEN << >>
  ELSE (IF keys[1] \in ColumnKeys THEN << keys[1] >> ELSE << >>) \o FoundColumns(Tail(keys))

\* setupView: yaml.specs.view is kept as the list of the keys of its columns
setupView(w) ==
  LET st == IF ~ToBoolean(w.state.view) /\ specsViews.default \in DOMAIN specsViews.lists
            THEN [ w.state EXCEPT !.view = Str(specsViews.default) ]
            ELSE w.state
      named == ToBoolean(st.view) /\ st.view # Str(<< "f", "u", "l", "l" >>) /\ st.view.s \in DOMAIN specsViews.lists
  IN  [ w EXCEPT !.state = st,
                 !.specsView = IF named THEN FoundColumns(specsViews.lists[st.view.s])
                               ELSE [ i \in 1..Len(specsTable) |-> specsTable[i].key ] ]

\* the column of the table with the key k
ColumnOf(k) == CHOOSE c \in { specsTable[i] : i \in 1..Len(specsTable) } : c.key = k

\* preRenderBody: every cell of every row is normalized
preRenderBody(w, rollOver) ==
  [ w EXCEPT !.data = [ r \in 1..Len(w.data) |->
                          [ k \in ColumnKeys |-> normalizeValue(w.data[r][k], ColumnOf(k), rollOver) ] ] ]


\* a plausible slip: the entry is given the bits of the first entry
ClearBitsOfFirst(disp) == [ key \in 1..Len(disp) |-> disp[1] % hiddenBit ]

\* display.forEach((_unused, key) => display[key] &= 1048575)
ClearBits(disp) == [ key \in 1..Len(disp) |-> disp[key] % hiddenBit ]

filterRowsShown(composed, called, filter, r) ==
  IF r.outcome = "hang" THEN [ called EXCEPT !.hung = TRUE ]
  ELSE IF r.outcome = "thrown" THEN [ called EXCEPT !.thrown = TRUE ]
  ELSE IF r.result = Bool(TRUE)
  THEN IF composed
       THEN [ called EXCEPT !.state.filter = Str(filter), !.filterError.hidden = TRUE ]
       ELSE called
  ELSE IF typeOf(r.result) = "String"
  THEN [ called EXCEPT !.filterError = [ hidden |-> FALSE, text |-> escapeHtml(r.result.s) ] ]
  ELSE called

filterRowsCalled(w, composed, filter, r) ==
  filterRowsShown(composed, [ w EXCEPT !.display = r.display,
                   !.outcome = [ outcome |-> r.outcome, result |-> r.result,
                                 checked |-> r.checked, filter |-> filter ] ],
        filter, r)

filterRowsOf(w, composed, rollOver, filter) ==
  filterRowsCalled(w, composed, filter, filterData(filter, w.display, w.data, rollOver))

\* filterRows(event); composed tells whether the event is a click of the user
filterRows(w, composed, rollOver) ==
  filterRowsOf(w, composed, rollOver, trim(w.filterInput))


\* a plausible slip: clearing the filter puts the rows back into the order of data[]
clearFilterAndOrder(w) ==
  [ w EXCEPT !.filterInput = << >>, !.filterError.hidden = TRUE,
             !.display = [ key \in 1..Len(@) |-> key - 1 ], !.state.filter = Undefined ]

\* clearFilter
clearFilter(w) ==
  [ w EXCEPT !.filterInput = << >>, !.filterError.hidden = TRUE,
             !.display = ClearBits(@), !.state.filter = Undefined ]

\* resetDataFilterSort
resetDataFilterSort(w) ==
  [ w EXCEPT !.filterInput = << >>, !.filterError.hidden = TRUE, !.display = ClearBits(@) ]

sortColumnSorted(w, composed, colKey, order) ==
  { [ w EXCEPT !.display = d,
               !.state = IF composed
                         THEN [ @ EXCEPT !.sort = Str(colKey), !.order = Str(order) ]
                         ELSE @ ] :
      d \in sortData(colKey, sortOrder(order), w.display, w.data) }

sortColumnOf(w, composed, detail, colKey) ==
  sortColumnSorted(w, composed, colKey,
         IF composed
         THEN IF ToBoolean(w.state.sort) /\ w.state.sort = Str(colKey)
              THEN (IF w.state.order = Str(<< "d", "e", "s", "c" >>) THEN << "a", "s", "c" >> ELSE << "d", "e", "s", "c" >>)
              ELSE << "a", "s", "c" >>
         ELSE IF detail = Str(<< "a", "s", "c" >>) \/ detail = Str(<< "d", "e", "s", "c" >>) THEN detail.s
         ELSE << "a", "s", "c" >>)

\* sortColumn(event) for an event on the header of the column colIdx of the view
\* (counted from 1; 0 when the event has no target); detail is event.detail
sortColumn(w, colIdx, composed, detail) ==
  IF colIdx = 0 THEN { w } ELSE sortColumnOf(w, composed, detail, w.specsView[colIdx])

\* the position of the column with the key k in the view, 0 when it has none
ViewIndex(view, k) ==
  IF \E i \in 1..Len(view) : Str(view[i]) = k
  THEN CHOOSE i \in 1..Len(view) : Str(view[i]) = k
  ELSE 0

applyStateOf(filtered) ==
  IF filtered.hung \/ filtered.thrown THEN { filtered }
  ELSE IF ToBoolean(filtered.state.sort)
  THEN sortColumn(filtered, ViewIndex(filtered.specsView, filtered.state.sort), FALSE,
                  filtered.state.order)
  ELSE { filtered }

\* applyState
applyState(w, rollOver) ==
  applyStateOf(IF ToBoolean(w.state.filter) THEN filterRows(w, FALSE, rollOver) ELSE w)

\* recoverStateFromURI: hash is the state the fragment identifier of the URL holds
recoverStateFromURI(w, hash) ==
  [ w EXCEPT !.state = hash,
             !.filterInput = IF ToBoolean(hash.filter) THEN hash.filter.s ELSE << >> ]

\* init(ymlData), from the call of the data parser on: raw is the data[] the parser
\* has filled, hash the state in the URL the page was opened with
init(raw, hash, rollOver) ==
  LET loaded == [ display |-> [ i \in 1..Len(raw) |-> i - 1 ], data |-> raw,
                  filterInput |-> << >>, filterError |-> HiddenError, state |-> NoState,
                  specsView |-> << >>, outcome |-> NoOutcome, thrown |-> FALSE, hung |-> FALSE ]
  IN  applyState(preRenderBody(setupView(recoverStateFromURI(loaded, hash)), rollOver), rollOver)

\* the listener of "updateView"
onUpdateView(w, rollOver) == applyState(preRenderBody(setupView(w), rollOver), rollOver)

\* updateView(view)
updateView(w, view, rollOver) == onUpdateView([ w EXCEPT !.state.view = Str(view) ], rollOver)

onPopStateOf(rollOver, oldView, recovered) ==
  IF recovered.state.view # oldView THEN onUpdateView(recovered, rollOver)
  ELSE applyState(recovered, rollOver)

\* the listener of "popstate": hash is the state in the URL navigated to
onPopState(w, hash, rollOver) ==
  onPopStateOf(rollOver, w.state.view, recoverStateFromURI(resetDataFilterSort([ w EXCEPT !.state = NoState ]), hash))


(***************************************************************************)
(* Filter expressions: their text and their meaning                        *)
(*                                                                         *)
(* An expression is a comparison (term), a group in parentheses, plain or  *)
(* negated, or a chain of comparisons and groups joined by AND and OR.     *)
(***************************************************************************)

Term(key, op, lit) ==
  [ node |-> "term", key |-> key, op |-> op, lit |-> lit, quoted |-> FALSE, tight |-> FALSE ]
Quoted(t) == [ t EXCEPT !.quoted = TRUE ]
Tight(t) == [ t EXCEPT !.tight = TRUE ]
Group(open, body) == [ node |-> "group", open |-> open, body |-> body ]
Chain(items, ops) == [ node |-> "chain", items |-> items, ops |-> ops ]

\* the text of an expression
RECURSIVE Render(_)
Render(e) ==
  CASE e.node = "term" ->
         LET lit == IF e.quoted THEN << "\"" >> \o e.lit \o << "\"" >> ELSE e.lit
         IN  IF e.tight THEN e.key \o e.op \o lit ELSE e.key \o << " " >> \o e.op \o << " " >> \o lit
    [] e.node = "group" -> e.open \o Render(e.body) \o << ")" >>
    [] e.node = "chain" ->
         IF Len(e.items) = 1 THEN Render(e.items[1])
         ELSE Render(e.items[1]) \o << " " >> \o e.ops[1] \o << " " >>
                \o Render(Chain(Tail(e.items), Tail(e.ops)))

\* the literal of a comparison with < or > in the form the type of the column compares
Converted(type, lit, rollOver) ==
  CASE type = "ip" -> ip2long(lit)
    [] type = "date" -> DateTime(lit, rollOver)
    [] type \in { "int", "intrange" } ->
         (IF ToBoolean(parseInt(lit)) THEN parseInt(lit) ELSE Num(0))
    [] type = "version" -> Str(version2hash(lit))
    [] OTHER -> Str(toUpperCase(lit))

\* a row satisfies a comparison
TermHolds(e, row, rollOver) ==
  LET Of(cell, lit) ==
        CASE e.op \in { << "=" >>, << "=", "=" >> } -> StrictEquals(cell.match, Str(toUpperCase(e.lit)))
          [] e.op = << "!", "=" >> -> ~StrictEquals(cell.match, Str(toUpperCase(e.lit)))
          [] e.op = << "~" >> -> RegExpTest(e.lit, String(cell.match))
          [] e.op = << "!", "~" >> -> ~RegExpTest(e.lit, String(cell.match))
          [] e.op = << "<" >> -> JsLess(IF "cmpMax" \in DOMAIN cell THEN cell.cmpMax ELSE cell.cmp, lit)
          [] e.op = << ">" >> -> JsLess(lit, IF "cmpMin" \in DOMAIN cell THEN cell.cmpMin ELSE cell.cmp)
          [] e.op = << "@", "=" >> ->
               /\ "mask" \in DOMAIN cell
               /\ StrictEquals(cell.cmpMin, UnsignedShift0(JsBitAnd(ip2long(e.lit), cell.mask)))
  IN  Of(row[e.key], Converted(typeMap[e.key], e.lit, rollOver))

\* the positions of a chain where a run of items joined by AND starts
RunStarts(e) == { 1 } \cup { i \in 2..Len(e.items) : toUpperCase(e.ops[i - 1]) = << "O", "R" >> }
RunEnd(e, i) ==
  CHOOSE j \in i..Len(e.items) :
    /\ \A k \in i..(j - 1) : toUpperCase(e.ops[k]) = << "A", "N", "D" >>
    /\ (j = Len(e.items) \/ toUpperCase(e.ops[j]) = << "O", "R" >>)

\* a row satisfies an expression: AND binds tighter than OR
RECURSIVE Holds(_, _, _)
Holds(e, row, rollOver) ==
  CASE e.node = "term" -> TermHolds(e, row, rollOver)
    [] e.node = "group" ->
         IF e.open = << "(" >> THEN Holds(e.body, row, rollOver) ELSE ~Holds(e.body, row, rollOver)
    [] e.node = "chain" ->
         \E i \in RunStarts(e) : \A k \in i..RunEnd(e, i) : Holds(e.items[k], row, rollOver)

(***************************************************************************)
(* The version strings the hash is applied to                              *)
(***************************************************************************)

\* bounds of the version inputs
MaxGroupCount == 7

\* the dot separated groups a version is built from
GroupChoices == { << "2" >>, << "1", "3" >> }
\* groups that replace the first group of a version: zero, six digits, more than
\* padNum characters, not a number
ExtraGroups == { << "0" >>, << "9", "9", "9", "9", "9", "9" >>,
                 << "9", "8", "7", "6", "5", "4", "3" >>, << "x" >> }
\* alphabetic suffixes after the dash, and the digits that may follow them
Suffixes == { << "a" >>, << "r", "c" >>, << "R", "C" >>, << "b", "e", "t", "a" >>,
              << "r", "e", "l", "e", "a", "s", "e" >> }
Builds == { << >>, << "1" >>, << "1", "2" >>, << "1", "2", "3", "4", "5", "6", "7" >> }

\* all sequences of n groups
RECURSIVE GroupSeqs(_)
GroupSeqs(n) ==
  IF n = 0 THEN { << >> }
  ELSE { << g >> \o t : g \in GroupChoices, t \in GroupSeqs(n - 1) }

PlainVersion(grp) == [ grp |-> grp, dash |-> FALSE, suf |-> << >>, build |-> << >> ]

PlainVersions == { PlainVersion(g) : g \in UNION { GroupSeqs(n) : n \in 1..MaxGroupCount } }

\* v followed by a dash, an alphabetic suffix and possibly digits
SuffixVariants(v) ==
  { [ grp |-> v.grp, dash |-> TRUE, suf |-> s, build |-> b ] : s \in Suffixes, b \in Builds }

\* the empty string stands for the empty and the absent version
EmptyVersion == PlainVersion(<< >>)

\* the text of a version
VerString(v) ==
  Join(v.grp, << "." >>) \o (IF v.dash THEN << "-" >> \o v.suf \o v.build ELSE << >>)

\* no page is loaded
NoPage ==
  /\ data = << >> /\ display = << >> /\ rollsOver = FALSE
  /\ filterInput = << >> /\ filterError = [ hidden |-> TRUE, text |-> << >> ]
  /\ state = << >> /\ specsView = << >> /\ outcome = << >>
  /\ thrown = FALSE /\ hung = FALSE /\ events = 0 /\ call = [ op |-> "none" ]

InitVer ==
  /\ NoPage
  /\ verA \in PlainVersions \cup { EmptyVersion }
  /\ verB \in { PlainVersion(g) : g \in GroupSeqs(Len(verA.grp)) }
              \cup (IF Len(verA.grp) > 0
                    THEN SuffixVariants(verA)
                           \cup { PlainVersion(<< g >> \o Tail(verA.grp)) : g \in ExtraGroups }
                    ELSE { })
  /\ hashA = << >>
  /\ hashB = << >>
  /\ verPc = "input"

\* the program hashes the two versions
HashVersions ==
  /\ verPc = "input"
  /\ hashA' = version2hash(VerString(verA))
  /\ hashB' = version2hash(VerString(verB))
  /\ verPc' = "hashed"
  /\ UNCHANGED << verA, verB >>
  /\ UNCHANGED pageVars

NextVer == HashVersions

SpecVer == InitVer /\ [][NextVer]_vars

(***************************************************************************)
(* Claims about version2hash                                               *)
(***************************************************************************)

\* the number a string of digits denotes
RECURSIVE DigitsValue(_)
DigitsValue(s) ==
  IF Len(s) = 0 THEN 0
  ELSE 10 * DigitsValue(SubSeq(s, 1, Len(s) - 1)) + (CodeOf[s[Len(s)]] - 48)

\* a decimal number of at most padNum digits without leading zeros
IsNumericGroup(g) ==
  /\ Len(g) >= 1
  /\ Len(g) <= 6
  /\ \A i \in 1..Len(g) : IsDigit(g[i])
  /\ (Len(g) > 1 => g[1] # "0")

\* x before y in the numeric lexicographic order of two group tuples of equal length
RECURSIVE TupleLess(_, _)
TupleLess(x, y) ==
  IF Len(x) = 0 THEN FALSE
  ELSE IF DigitsValue(x[1]) # DigitsValue(y[1]) THEN DigitsValue(x[1]) < DigitsValue(y[1])
  ELSE TupleLess(Tail(x), Tail(y))

\* verA and verB are two versions the ordering of C9 speaks about
SameShapeNumeric ==
  /\ ~verA.dash
  /\ ~verB.dash
  /\ Len(verA.grp) = Len(verB.grp)
  /\ Len(verA.grp) >= 1
  /\ Len(verA.grp) <= 6
  /\ \A i \in 1..Len(verA.grp) : IsNumericGroup(verA.grp[i]) /\ IsNumericGroup(verB.grp[i])

\* C8: for every input (absent or empty, any number of dot groups, with or without a
\* dash suffix, with or without build digits) version2hash returns exactly 44 characters.
\* The code breaks it: six groups without a dash, and a suffix without digits, give 42.
C8_HashIs44Chars ==
  verPc = "hashed" => (Len(hashA) = 44 /\ Len(hashB) = 44)

\* C9: for two versions without a dash that have the same number (1 to 6) of numeric
\* groups, the hash of the first is the smaller string exactly when its tuple of groups
\* is the smaller one in the numeric lexicographic order.
C9_HashOrderIsNumericOrder ==
  (verPc = "hashed" /\ SameShapeNumeric)
    => (StrLess(hashA, hashB) <=> TupleLess(verA.grp, verB.grp))

\* C9 witness: 13.2 against 13.13 has been hashed, and 13.2 came out first although
\* "13" is the smaller string
C9_Witness ==
  /\ verPc = "hashed"
  /\ verA = PlainVersion(<< << "1", "3" >>, << "2" >> >>)
  /\ verB = PlainVersion(<< << "1", "3" >>, << "1", "3" >> >>)
  /\ StrLess(hashA, hashB)
  /\ StrLess(verB.grp[2], verA.grp[2])

\* C10: a version without a dash (1 to 6 groups) sorts after each of its variants with
\* an alphabetic suffix. The code breaks it for six groups.
C10_SuffixedSortsFirst ==
  (/\ verPc = "hashed"
   /\ ~verA.dash
   /\ Len(verA.grp) >= 1
   /\ Len(verA.grp) <= 6
   /\ verB \in SuffixVariants(verA))
    => StrLess(hashB, hashA)


(***************************************************************************)
(* The rows the page is loaded with                                        *)
(***************************************************************************)

\* a raw row as the data parser leaves it in data[]
Row(id, src, srcName, proto, ports, ver, lastupd) ==
  (<< "i", "d" >> :> id) @@ (<< "s", "r", "c" >> :> src) @@ (<< "s", "r", "c", "N", "a", "m", "e" >> :> srcName) @@ (<< "p", "r", "o", "t", "o" >> :> proto)
    @@ (<< "p", "o", "r", "t", "s" >> :> ports) @@ (<< "v", "e", "r" >> :> ver) @@ (<< "l", "a", "s", "t", "u", "p", "d" >> :> lastupd)

\* rows with well-formed values, some of them equal in a column
CleanRows ==
  << Row(Num(2), Str(<< "1", "0", ".", "1", ".", "2", ".", "3" >>), Str(<< "w", "e", "b", "1" >>), Str(<< "T", "C", "P" >>), Str(<< "8", "0", "-", "9", "0" >>),
         Str(<< "1", ".", "1", "3" >>), Str(<< "2", "0", "1", "9", "-", "0", "3", "-", "0", "1" >>)),
     Row(Num(1), Str(<< "1", "0", ".", "1", ".", "2", ".", "0", "/", "2", "4" >>), Str(<< "d", "b", "1" >>), Str(<< "u", "d", "p" >>), Num(443),
         Str(<< "1", ".", "3" >>), Str(<< "2", "0", "1", "8", "-", "0", "6", "-", "1", "5" >>)),
     Row(Num(2), Str(<< "1", "9", "2", ".", "1", "6", "8", ".", "0", ".", "1" >>), Str(<< "w", "e", "b", " ", "2" >>), Str(<< "u", "d", "p" >>), Str(<< "2", "2", "-", "9", "0" >>),
         Str(<< "1", ".", "1", "3", "-", "r", "c", "1" >>), Str(<< "2", "0", "1", "9", "-", "0", "2", "-", "3", "0" >>)) >>

\* rows with values of the wrong type or form among them
DirtyRows ==
  << Row(Num(3), Str(<< "b", "a", "n", "a", "n", "a" >>), Num(5), Str(<< "o", "r" >>), Str(<< "n", "/", "a" >>),
         Null, Str(<< "s", "o", "o", "n" >>)),
     Row(Str(<< >>), Str(<< "1", "0", ".", "1", ".", "2", ".", "3", "/", "0" >>), Str(<< >>), Null, Str(<< "8", "0", "8", "0" >>),
         Str(<< "2" >>), Num(1550000000)),
     Row(Num(1), Null, Str(<< "W", "e", "b", "1" >>), Str(<< "T", "C", "P" >>), Null,
         Num(13), Null) >>

RawDataSets == { CleanRows, DirtyRows }

(***************************************************************************)
(* The state machine of the page                                           *)
(***************************************************************************)

\* the world the variables hold, at the start of a handler
World ==
  [ display |-> display, data |-> data, filterInput |-> filterInput,
    filterError |-> filterError, state |-> state, specsView |-> specsView,
    outcome |-> outcome, thrown |-> FALSE, hung |-> hung ]

\* the variables hold the world w
InWorld(w) ==
  /\ display = w.display /\ data = w.data /\ filterInput = w.filterInput
  /\ filterError = w.filterError /\ state = w.state /\ specsView = w.specsView
  /\ outcome = w.outcome /\ thrown = w.thrown /\ hung = w.hung

\* the handler leaves the world w
Leaves(w) ==
  /\ display' = w.display /\ data' = w.data /\ filterInput' = w.filterInput
  /\ filterError' = w.filterError /\ state' = w.state /\ specsView' = w.specsView
  /\ outcome' = w.outcome /\ thrown' = w.thrown /\ hung' = w.hung

NoVersions ==
  /\ verA = EmptyVersion /\ verB = EmptyVersion
  /\ hashA = << >> /\ hashB = << >> /\ verPc = "none"

\* the states a URL can hold
Hash(view, sort, order, filter) == [ view |-> view, sort |-> sort, order |-> order, filter |-> filter ]
Hashes ==
  { NoState,
    Hash(Undefined, Str(<< "i", "d" >>), Str(<< "d", "e", "s", "c" >>), Str(<< "p", "r", "o", "t", "o", " ", "=", " ", "t", "c", "p" >>)),
    Hash(Str(<< "f", "u", "l", "l" >>), Str(<< "l", "a", "s", "t", "u", "p", "d" >>), Str(<< "u", "p" >>), Undefined),
    Hash(Str(<< "m", "i", "n", "i", "m", "a", "l" >>), Str(<< "b", "o", "g", "u", "s" >>), Undefined, Str(<< "i", "d", " ", "=", " ", "1", ")" >>)) }

\* what the user types into the input #filter
TypedFilters == { << "i", "d", " ", ">", " ", "1" >>, << " ", "f", "o", "o", " ", "=", " ", "1", " " >>, << "p", "r", "o", "t", "o", " ", "=", " ", "\"", "o", "r", "\"" >> }

\* the views custom code switches to
ViewChoices == { << "p", "a", "r", "t", "i", "a", "l" >>, << "m", "i", "n", "i", "m", "a", "l" >> }

\* the events handled in one behaviour of the page
MaxEvents == 2

\* the page is opened: init has run
Init ==
  /\ NoVersions
  /\ rollsOver \in BOOLEAN
  /\ events = 0
  /\ call = [ op |-> "init" ]
  /\ \E raw \in RawDataSets, hash \in Hashes : \E w \in init(raw, hash, rollsOver) : InWorld(w)

\* the page handles one more event
Handled == ~hung /\ events < MaxEvents /\ events' = events + 1 /\ UNCHANGED rollsOver

\* the user edits the text of the input #filter and clicks the button Filter (or
\* presses Enter in the input)
FilterRows ==
  /\ Handled
  /\ \E f \in TypedFilters : Leaves(filterRows([ World EXCEPT !.filterInput = f ], TRUE, rollsOver))
  /\ call' = [ op |-> "filterRows" ]

\* a click on the button Clear
ClearFilter ==
  /\ Handled
  /\ Leaves(clearFilter(World))
  /\ call' = [ op |-> "clearFilter" ]

\* a click on the header of a column
SortColumn ==
  /\ Handled
  /\ \E colIdx \in 1..Len(specsView) : \E w \in sortColumn(World, colIdx, TRUE, Undefined) :
       /\ Leaves(w)
       /\ call' = [ op |-> "sortColumn", colKey |-> w.state.sort.s, order |-> w.state.order.s ]

\* custom code calls updateView(view)
UpdateView ==
  /\ Handled
  /\ \E view \in ViewChoices : \E w \in updateView(World, view, rollsOver) : Leaves(w)
  /\ call' = [ op |-> "updateView" ]

\* the user navigates the history or edits the fragment of the URL
PopState ==
  /\ Handled
  /\ \E hash \in Hashes : \E w \in onPopState(World, hash, rollsOver) : Leaves(w)
  /\ call' = [ op |-> "popstate" ]

Next ==
  \/ (FilterRows /\ UNCHANGED verVars)
  \/ (ClearFilter /\ UNCHANGED verVars)
  \/ (SortColumn /\ UNCHANGED verVars)
  \/ (UpdateView /\ UNCHANGED verVars)
  \/ (PopState /\ UNCHANGED verVars)

Spec == Init /\ [][Next]_vars


(***************************************************************************)
(* The filters filterData is called with                                   *)
(***************************************************************************)

\* the greatest number of comparisons and groups joined in a chain
MaxTerms == 3

NoAst == [ node |-> "none" ]

\* comparisons over every type of column and every operator
Comparisons ==
  { Term(<< "i", "d" >>, << "=" >>, << "2" >>), Term(<< "i", "d" >>, << "=", "=" >>, << "1" >>), Term(<< "i", "d" >>, << "!", "=" >>, << "2" >>),
    Term(<< "i", "d" >>, << "<" >>, << "2" >>), Term(<< "i", "d" >>, << ">" >>, << "1" >>),
    Term(<< "p", "r", "o", "t", "o" >>, << "=" >>, << "t", "c", "p" >>), Quoted(Term(<< "p", "r", "o", "t", "o" >>, << "=" >>, << "T", "C", "P" >>)),
    Term(<< "p", "r", "o", "t", "o" >>, << "!", "=" >>, << "u", "d", "p" >>),
    Term(<< "s", "r", "c", "N", "a", "m", "e" >>, << "~" >>, << "^", "w", "e", "b" >>), Term(<< "s", "r", "c", "N", "a", "m", "e" >>, << "!", "~" >>, << "1", "$" >>),
    Quoted(Term(<< "s", "r", "c", "N", "a", "m", "e" >>, << "=" >>, << "w", "e", "b", " ", "2" >>)),
    Term(<< "s", "r", "c" >>, << "@", "=" >>, << "1", "0", ".", "1", ".", "2", ".", "7", "7" >>), Term(<< "s", "r", "c" >>, << ">" >>, << "1", "0", ".", "1", ".", "2", ".", "3" >>),
    Term(<< "s", "r", "c" >>, << "<" >>, << "1", "9", "2", ".", "1", "6", "8", ".", "0", ".", "1" >>), Term(<< "s", "r", "c" >>, << "=" >>, << "1", "0", ".", "1", ".", "2", ".", "3" >>),
    Term(<< "p", "o", "r", "t", "s" >>, << "<" >>, << "1", "0", "0" >>), Term(<< "p", "o", "r", "t", "s" >>, << ">" >>, << "8", "0" >>),
    Term(<< "v", "e", "r" >>, << ">" >>, << "1", ".", "3" >>), Term(<< "v", "e", "r" >>, << "<" >>, << "1", ".", "1", "3" >>),
    Term(<< "l", "a", "s", "t", "u", "p", "d" >>, << ">" >>, << "2", "0", "1", "9", "-", "0", "1", "-", "0", "1" >>), Term(<< "l", "a", "s", "t", "u", "p", "d" >>, << "<" >>, << "2", "0", "1", "9", "-", "0", "2", "-", "3", "0" >>),
    Tight(Term(<< "i", "d" >>, << "=" >>, << "2" >>)), Tight(Term(<< "p", "o", "r", "t", "s" >>, << "<" >>, << "1", "0", "0" >>)),
    Quoted(Term(<< "p", "r", "o", "t", "o" >>, << "=" >>, << "O", "R" >>)), Quoted(Term(<< "s", "r", "c", "N", "a", "m", "e" >>, << "!", "=" >>, << "=" >>)) }

Opens == { << "(" >>, << "!", "(" >>, << "N", "O", "T", "(" >> }
Connectives == { << "A", "N", "D" >>, << "O", "R" >> }

\* the comparisons the chains are made of
ChainTerms == { Term(<< "i", "d" >>, << "=" >>, << "2" >>), Term(<< "p", "r", "o", "t", "o" >>, << "=" >>, << "t", "c", "p" >>) }

Groups == { Group(o, t) : o \in Opens, t \in Comparisons }

Chains ==
  UNION { { Chain(items, ops) : items \in [ 1..n -> ChainTerms ], ops \in [ 1..(n - 1) -> Connectives ] } :
          n \in 2..MaxTerms }

\* a group at the start or at the end of a chain, and a group within a group
GroupedChains ==
  { Chain(<< Group(o, Chain(<< a, b >>, << << "O", "R" >> >>)), c >>, << << "A", "N", "D" >> >>) :
      o \in { << "(" >>, << "!", "(" >> }, a \in ChainTerms, b \in ChainTerms, c \in ChainTerms }
  \cup
  { Chain(<< a, Group(o, Chain(<< b, c >>, << << "A", "N", "D" >> >>)) >>, << << "O", "R" >> >>) :
      o \in { << "(" >>, << "N", "O", "T", "(" >> }, a \in ChainTerms, b \in ChainTerms, c \in ChainTerms }
  \cup
  { Group(o, Group(p, t)) : o \in { << "!", "(" >> }, p \in { << "(" >>, << "!", "(" >> }, t \in ChainTerms }

\* connectives in lower case, and comparisons written without spaces within a chain
OtherChains ==
  { Chain(<< Term(<< "i", "d" >>, << "=" >>, << "2" >>), Term(<< "p", "r", "o", "t", "o" >>, << "=" >>, << "t", "c", "p" >>) >>, << << "a", "n", "d" >> >>),
    Chain(<< Term(<< "i", "d" >>, << "=" >>, << "2" >>), Term(<< "p", "r", "o", "t", "o" >>, << "=" >>, << "t", "c", "p" >>) >>, << << "o", "r" >> >>),
    Chain(<< Term(<< "i", "d" >>, << "<" >>, << "2" >>), Term(<< "p", "o", "r", "t", "s" >>, << ">" >>, << "8", "0" >>), Term(<< "v", "e", "r" >>, << ">" >>, << "1", ".", "3" >>) >>,
          << << "O", "r" >>, << "A", "n", "d" >> >>),
    Chain(<< Tight(Term(<< "i", "d" >>, << "=" >>, << "2" >>)), Tight(Term(<< "p", "r", "o", "t", "o" >>, << "=" >>, << "t", "c", "p" >>)) >>, << << "A", "N", "D" >> >>),
    Chain(<< Term(<< "i", "d" >>, << "=" >>, << "2" >>), Tight(Term(<< "p", "r", "o", "t", "o" >>, << "=" >>, << "u", "d", "p" >>)) >>, << << "O", "R" >> >>) }

Expressions == Comparisons \cup Groups \cup Chains \cup GroupedChains \cup OtherChains

\* texts that are no expression, or an expression of columns and literals the table
\* has not
OtherTexts ==
  { << >>, << "i", "d" >>, << "i", "d", " ", "=" >>, << ")" >>, << "=", " ", "2" >>, << "f", "o", "o", " ", "=", " ", "1" >>, << "I", "D", " ", "=", " ", "2" >>, << "s", "r", "c", "N", "a", "m", "e", " ", "~", " ", "[", "a" >>, << "s", "r", "c", "N", "a", "m", "e", " ", "~", " ", "*", "a" >>,
    << "s", "r", "c", " ", ">", " ", "1", "0", ".", "1", ".", "2" >>, << "s", "r", "c", " ", "@", "=", " ", "b", "a", "n", "a", "n", "a" >>, << "s", "r", "c", " ", "<", " ", "1", "0", ".", "1", ".", "2", ".", "2", "5", "6" >>, << "l", "a", "s", "t", "u", "p", "d", " ", ">", " ", "2", "0", "1", "9", "-", "1", "-", "1" >>,
    << "l", "a", "s", "t", "u", "p", "d", " ", ">", " ", "2", "0", "1", "9", "-", "1", "3", "-", "0", "1" >>, << "l", "a", "s", "t", "u", "p", "d", " ", "<", " ", "1", "9", "9", "0", "-", "0", "1", "-", "0", "1" >>, << "l", "a", "s", "t", "u", "p", "d", " ", ">", " ", "2", "0", "4", "0", "-", "0", "1", "-", "0", "1" >>,
    << "p", "r", "o", "t", "o", " ", "@", "=", " ", "1", "0", ".", "0", ".", "0", ".", "1" >>, << "i", "d", " ", "=", " ", "=", " ", "5" >>, << "!", "(", " ", ")", " ", "x" >>, << "i", "d", " ", "=", " ", "5", " ", "p", "r", "o", "t", "o" >>, << "(", "i", "d", " ", "=", " ", "5" >>,
    << "i", "d", " ", "=", " ", "5", " ", "A", "N", "D" >>, << "i", "d", " ", "=", " ", "5", ")" >>, << ")", " ", ")", " ", ")" >>, << "(", "i", "d", " ", "=", " ", "5", ")", ")" >>, << "i", "d", " ", "=", " ", "1", " ", "=", " ", "2" >>, << "i", "d", " ", "=", " ", "(" >> }

FilterCorpus ==
  { [ text |-> Render(e), ast |-> e ] : e \in Expressions }
  \cup { [ text |-> t, ast |-> NoAst ] : t \in OtherTexts }

(***************************************************************************)
(* Calls of filterData on the page just opened                             *)
(***************************************************************************)

\* filterData(filter)
CallFilterData ==
  /\ call.op = "init" /\ ~hung
  /\ \E f \in FilterCorpus : \E r \in { filterData(f.text, display, data, rollsOver) } :
       /\ display' = r.display
       /\ outcome' = [ outcome |-> r.outcome, result |-> r.result,
                       checked |-> r.checked, filter |-> f.text ]
       /\ thrown' = (r.outcome = "thrown")
       /\ hung' = (r.outcome = "hang")
       /\ call' = [ op |-> "filterData", filter |-> f.text, ast |-> f.ast, before |-> display ]
  /\ UNCHANGED << data, rollsOver, filterInput, filterError, state, specsView, events >>

NextFilter == CallFilterData /\ UNCHANGED verVars

SpecFilter == Init /\ [][NextFilter]_vars


(***************************************************************************)
(* Sequences of calls of filterData, sortData and clearFilter on a page    *)
(* opened with neither a filter nor a sort in its URL                      *)
(***************************************************************************)

\* the filters of the calls
CallFilters == { << "i", "d", " ", ">", " ", "1" >>, << "p", "r", "o", "t", "o", " ", "=", " ", "t", "c", "p", " ", "A", "N", "D", " ", "i", "d", " ", "=", " ", "2" >>, << "f", "o", "o", " ", "=", " ", "1" >> }

InitCalls == Init /\ state.sort = Undefined /\ state.filter = Undefined

\* filterData(filter)
FilterData ==
  /\ ~hung
  /\ \E f \in CallFilters : \E r \in { filterData(f, display, data, rollsOver) } :
       /\ display' = r.display
       /\ outcome' = [ outcome |-> r.outcome, result |-> r.result,
                       checked |-> r.checked, filter |-> f ]
       /\ thrown' = (r.outcome = "thrown")
       /\ hung' = (r.outcome = "hang")
       /\ call' = [ op |-> "filterData", filter |-> f ]
  /\ UNCHANGED << data, rollsOver, filterInput, filterError, state, specsView, events >>

\* sortData(colKey, order)
SortData ==
  /\ ~hung
  /\ \E colKey \in ColumnKeys, order \in { 0, 1 } :
       /\ display' \in sortData(colKey, order, display, data)
       /\ call' = [ op |-> "sortData", colKey |-> colKey, order |-> order ]
  /\ UNCHANGED << data, rollsOver, filterInput, filterError, state, specsView, outcome,
                  thrown, hung, events >>

\* clearFilter()
CallClearFilter ==
  /\ ~hung
  /\ Leaves(clearFilter(World))
  /\ call' = [ op |-> "clearFilter" ]
  /\ UNCHANGED << rollsOver, events >>

NextCalls ==
  \/ (FilterData /\ UNCHANGED verVars)
  \/ (SortData /\ UNCHANGED verVars)
  \/ (CallClearFilter /\ UNCHANGED verVars)

SpecCalls == InitCalls /\ [][NextCalls]_vars


(***************************************************************************)
(* Claims about filterData                                                 *)
(***************************************************************************)

\* bit 20 of an entry of display[] is set
Hidden(entry) == entry >= hiddenBit
\* the row an entry of display[] stands for
RowOf(entry) == data[(entry % hiddenBit) + 1]

\* filterData has been called with the text of an expression
FilteredExpression == call.op = "filterData" /\ call.ast # NoAst

\* C1: after filterData(f) for a filter f that passed validation, whatever the rows and
\* the hidden bits before the call, the entry of a row has bit 20 clear exactly when the
\* row satisfies f (comparisons joined by AND and OR, groups, negated groups); as the
\* negated group !(f) is satisfied by the rows that do not satisfy f, the rows it leaves
\* visible are the complement.  The code breaks it: a comparison written without
\* spaces after a connective is ignored, and a quoted literal that reads as an operator
\* makes runFilter throw.
C1_FilterPartitionsRows ==
  (FilteredExpression /\ outcome.checked = Bool(TRUE)) =>
    /\ outcome.outcome = "returned"
    /\ \A k \in 1..Len(display) : ~Hidden(display[k]) <=> Holds(call.ast, RowOf(display[k]), rollsOver)

ClosesUnopened(text) ==
  \E i \in 1..Len(text) :
    /\ text[i] = ")"
    /\ Cardinality({ j \in 1..i : text[j] = ")" }) > Cardinality({ j \in 1..i : text[j] = "(" })

\* C4: for every filter string the steps getTokens, tokensToRPN and checkFilter come to
\* an end, and a string they are run on (one of three tokens or more) with a ")" that
\* nothing opens is reported by an error string with display[] as it was.  The code
\* breaks it: on such a ")" the loop of tokensToRPN that unwinds the stack never ends.
C4_PipelineTerminates ==
  call.op = "filterData" =>
    /\ outcome.outcome # "hang"
    /\ (/\ ClosesUnopened(call.filter)
        /\ Len(getTokens(call.filter, filterTokensWord, filterTokensNonWord)) > 2) =>
         (outcome.outcome = "returned" /\ typeOf(outcome.result) = "String" /\ display = call.before)


(***************************************************************************)
(* Claims about display[]                                                  *)
(***************************************************************************)

\* the rows of the entries of display[], in their order
RowOrder(disp) == [ k \in 1..Len(disp) |-> disp[k] % hiddenBit ]

\* C5: in any sequence of calls of filterData, sortData and clearFilter, sortData
\* changes only the order of the entries (every row keeps its hidden bit), and
\* filterData and clearFilter change only bit 20 (the order of the rows stays).
C5_FilterAndSortCompose ==
  [][ /\ call'.op = "sortData" =>
           (Len(display') = Len(display) /\ Entries(display') = Entries(display))
      /\ call'.op \in { "filterData", "clearFilter" } => RowOrder(display') = RowOrder(display)
    ]_vars

\* C5 witness: sortData has been called and display[] holds hidden and visible rows in
\* another order than that of data[]
C5_Witness ==
  /\ call.op = "sortData"
  /\ \E k \in 1..Len(display) : Hidden(display[k])
  /\ \E k \in 1..Len(display) : ~Hidden(display[k])
  /\ \E k \in 1..Len(display) : RowOrder(display)[k] # k - 1

\* C6: in every state reachable after init by handling filter, sort, clear-filter,
\* view-change and history-navigation events, display[] has one entry per row of data[]
\* and the low 20 bits of its entries are a permutation of 0..n-1.
C6_DisplayIsPermutation ==
  /\ Len(display) = Len(data)
  /\ { display[k] % hiddenBit : k \in 1..Len(display) } = 0..(Len(data) - 1)

\* C6 witness: the page has handled a history navigation after another event, and
\* display[] holds hidden rows in another order than that of data[]
C6_Witness ==
  /\ call.op = "popstate" /\ events > 1
  /\ \E k \in 1..Len(display) : Hidden(display[k])
  /\ \E k \in 1..Len(display) : RowOrder(display)[k] # k - 1

\* the property of a cell that is the key of the column for a sort
KeyField(colKey, order) ==
  IF typeMap[colKey] \in { "intrange", "ip" } THEN (IF order = 1 THEN "cmpMin" ELSE "cmpMax")
  ELSE "cmp"
\* the key of the row of an entry
KeyOf(entry, colKey, order) == RowOf(entry)[colKey][KeyField(colKey, order)]
\* where an entry stands in display[]
PositionIn(disp, entry) == CHOOSE k \in 1..Len(disp) : disp[k] = entry

\* C7: after sortData(colKey, ascending) the rows of display[] are in non-decreasing
\* order of the key of the column, after sortData(colKey, descending) in non-increasing
\* order (the key is cmp, and for the columns of the types intrange and ip cmpMin when
\* ascending and cmpMax when descending), and rows of equal keys keep their order.  The
\* code breaks it: a cell whose cmp is NaN compares equal to every other.
C7_SortOrdersByKey ==
  [][ call'.op = "sortData" =>
        /\ \A i, j \in 1..Len(display') :
             i < j =>
               IF call'.order = 1
               THEN ~JsLess(KeyOf(display'[j], call'.colKey, 1), KeyOf(display'[i], call'.colKey, 1))
               ELSE ~JsLess(KeyOf(display'[i], call'.colKey, 0), KeyOf(display'[j], call'.colKey, 0))
        /\ \A i, j \in 1..Len(display') :
             (/\ i < j
              /\ KeyOf(display'[i], call'.colKey, call'.order) = KeyOf(display'[j], call'.colKey, call'.order))
               => PositionIn(display, display'[i]) < PositionIn(display, display'[j])
    ]_vars


(***************************************************************************)
(* normalizeValue applied to one cell, and applied again                   *)
(*                                                                         *)
(* preRenderBody runs normalizeValue on every cell when the page is opened *)
(* and again on every change of the view, on the cells the run before left.*)
(***************************************************************************)

\* the IPv4 addresses of the cells, as their four octets
IpQuads ==
  { << 10, 1, 2, 3 >>, << 0, 0, 0, 0 >>, << 255, 255, 255, 255 >>, << 192, 168, 0, 1 >>,
    << 128, 0, 0, 0 >>, << 1, 2, 3, 255 >> }

\* the text a.b.c.d of an address
QuadText(quad) == Join([ i \in 1..4 |-> NatToString(quad[i]) ], << "." >>)

\* the prefix lengths written behind the slash
Prefixes == 0..32

\* raw values of the form a.b.c.d/n and a.b.c.d
IpRaws ==
  { Str(QuadText(quad) \o << "/" >> \o NatToString(n)) : quad \in IpQuads, n \in Prefixes }
    \cup { Str(QuadText(quad)) : quad \in IpQuads }

\* raw values given in the shorthand form
BareRaws ==
  { Num(5), Num(0), NaN, Null, Undefined, Bool(TRUE),
    Str(<< "5" >>), Str(<< >>), Str(<< "a", "b", "c" >>), Str(<< "a", "<", "b" >>), Str(<< "8", "0", "-", "9", "0" >>), Str(<< "8", "0" >>), Str(<< "n", "/", "a" >>),
    Str(<< "1", "0", ".", "1", ".", "2", ".", "3", "/", "2", "4" >>), Str(<< "1", "0", ".", "1", ".", "2", ".", "3", " ", "/", "2", "5", "5", ".", "2", "5", "5", ".", "0", ".", "0" >>), Str(<< "b", "a", "n", "a", "n", "a" >>), Str(<< "3", "0", "0", ".", "1", ".", "2", ".", "3", "/", "3", "3" >>),
    Str(<< "2", "0", "1", "9", "-", "0", "3", "-", "0", "1" >>), Str(<< "2", "0", "1", "9", "-", "0", "2", "-", "3", "0" >>), Str(<< "s", "o", "o", "n" >>), Num(1550000000),
    Str(<< "1", ".", "1", "3", "-", "r", "c", "1" >>) }

\* raw cells given as objects, with fields that upstream data supplies: of the right
\* type, of a wrong type, of the other shape
ObjectRaws ==
  { [ value |-> Str(<< "5" >>), html |-> Str(<< "f", "i", "v", "e" >>), match |-> Str(<< "F", "I", "V", "E" >>), cmp |-> Num(7) ],
    [ value |-> Num(5), html |-> Str(<< "f", "i", "v", "e" >>), match |-> Str(<< "F", "I", "V", "E" >>), cmp |-> Num(7) ],
    [ value |-> Num(5), html |-> Num(1), match |-> Null, cmp |-> Str(<< "x" >>) ],
    [ value |-> Bool(TRUE), html |-> Str(<< "y", "e", "s" >>), match |-> Str(<< "Y", "E", "S" >>), cmp |-> Str(<< "Y", "E", "S" >>) ],
    [ value |-> Str(<< "w", "e", "b" >>), html |-> Str(<< "<", "b", ">", "w", "e", "b", "<", "/", "b", ">" >>), match |-> Str(<< "W", "E", "B" >>), cmp |-> Str(<< "W", "E", "B" >>) ],
    [ html |-> Str(<< "<", "b", ">", "w", "e", "b", "<", "/", "b", ">" >>) ],
    [ value |-> Str(<< "8", "0", "-", "9", "0" >>), html |-> Str(<< "h", "t", "t", "p" >>), match |-> Str(<< "H", "T", "T", "P" >>),
      cmpMin |-> Num(1), cmpMax |-> Num(2), cmp |-> Num(3), mask |-> Num(4) ],
    [ value |-> Num(80), cmpMin |-> Num(1), cmpMax |-> Num(2), cmp |-> Str(<< "x" >>), mask |-> Num(4) ],
    [ value |-> Str(<< "1", "0", ".", "1", ".", "2", ".", "3", "/", "2", "4" >>), html |-> Str(<< "h", "o", "s", "t" >>), match |-> Str(<< "H", "O", "S", "T" >>),
      cmpMin |-> Num(1), cmpMax |-> Num(2), cmp |-> Num(3), mask |-> Num(4) ],
    [ value |-> Null, cmpMin |-> Num(1), cmpMax |-> Num(2), cmp |-> Num(3), mask |-> Num(4) ],
    [ value |-> Null, htmlAlt |-> Str(<< "n", "o", "n", "e" >>) ],
    [ value |-> Null, cssClass |-> Str(<< "d", "i", "m" >>) ],
    [ value |-> Str(<< "a", "b", "c" >>), cssClass |-> Array(<< << "d", "i", "m" >>, << "w", "i", "d", "e" >> >>) ],
    [ value |-> Str(<< "2", "0", "1", "9", "-", "0", "3", "-", "0", "1" >>), html |-> Str(<< "M", "a", "r", "c", "h" >>), match |-> Str(<< "M", "A", "R", "C", "H" >>), cmp |-> Num(5) ],
    [ value |-> Num(1550000000), html |-> Str(<< "t", "h", "e", "n" >>), match |-> Str(<< "T", "H", "E", "N" >>), cmp |-> Num(5) ],
    [ value |-> Str(<< "1", ".", "1", "3" >>), html |-> Str(<< "v", "1", ".", "1", "3" >>), match |-> Str(<< "V", "1", ".", "1", "3" >>), cmp |-> Str(<< "0", "1", "1", "3" >>) ] }

\* the columns of the cells: those of the table, one of a type the program does not
\* know and one with a fallback text of its own
NormColumns ==
  { specsTable[i] : i \in 1..Len(specsTable) }
    \cup { [ key |-> << "n", "o", "t", "e", "s" >>, type |-> "text" ],
           [ key |-> << "c", "o", "u", "n", "t" >>, type |-> "int", htmlAlt |-> Str(<< "-" >>) ] }

\* the column of the type ip
IpColumn == ColumnOf(<< "s", "r", "c" >>)

\* a raw cell and its column
NormInputs ==
  ((BareRaws \cup ObjectRaws) \X NormColumns) \cup (IpRaws \X { IpColumn })

\* a raw cell is in a row of data[], not yet normalized
InitNorm ==
  /\ NoVersions
  /\ data = << >> /\ display = << >> /\ rollsOver \in BOOLEAN
  /\ filterInput = << >> /\ filterError = HiddenError
  /\ state = NoState /\ specsView = << >> /\ outcome = NoOutcome
  /\ thrown = FALSE /\ hung = FALSE /\ events = 0
  /\ \E in \in NormInputs : call = [ op |-> "raw", raw |-> in[1], column |-> in[2] ]

\* normalizeValue(row, column) on the raw cell (preRenderBody when the page is opened)
Normalize ==
  /\ call.op = "raw"
  /\ call' = [ op |-> "normalizeValue", raw |-> call.raw, column |-> call.column,
               cell |-> normalizeValue(call.raw, call.column, rollsOver) ]
  /\ UNCHANGED << data, display, rollsOver, filterInput, filterError, state, specsView,
                  outcome, thrown, hung, events >>

\* normalizeValue(row, column) on the cell it left (preRenderBody when the view changes)
NormalizeAgain ==
  /\ call.op = "normalizeValue"
  /\ call' = [ op |-> "normalizeValue again", raw |-> call.raw, column |-> call.column,
               cell |-> call.cell,
               again |-> normalizeValue(call.cell, call.column, rollsOver) ]
  /\ UNCHANGED << data, display, rollsOver, filterInput, filterError, state, specsView,
                  outcome, thrown, hung, events >>

NextNorm ==
  \/ (Normalize /\ UNCHANGED verVars)
  \/ (NormalizeAgain /\ UNCHANGED verVars)

SpecNorm == InitNorm /\ [][NextNorm]_vars


(***************************************************************************)
(* Claims about normalizeValue                                             *)
(***************************************************************************)

\* the fields normalizeValue derives, and the list of classes
DerivedFields == { "html", "match", "cmp", "cmpMin", "cmpMax", "mask" }

\* the cells a and b have the same fields of the set fields, with the same values
SameFields(a, b, fields) ==
  \A f \in fields :
    /\ f \in DOMAIN a <=> f \in DOMAIN b
    /\ f \in DOMAIN a => a[f] = b[f]

\* C11: normalizeValue is idempotent: for every type of column and every raw cell the
\* second application leaves html, match, cmp, cmpMin, cmpMax, mask and the list
\* cssClass as the first application left them.  The code breaks it: every path of a
\* bad value pushes "bad-value" onto cssClass once more.
C11_NormalizeIdempotent ==
  call.op = "normalizeValue again" =>
    SameFields(call.cell, call.again, DerivedFields \cup { "cssClass" })


\* the cell has the shape of the type of its column: cmpMin and cmpMax and no cmp for
\* intrange and ip, cmp and neither cmpMin nor cmpMax for the other types, and a mask
\* only for ip
HasShapeOf(cell, type) ==
  /\ IF type \in { "intrange", "ip" }
     THEN { "cmpMin", "cmpMax" } \subseteq DOMAIN cell /\ "cmp" \notin DOMAIN cell
     ELSE "cmp" \in DOMAIN cell /\ "cmpMin" \notin DOMAIN cell /\ "cmpMax" \notin DOMAIN cell
  /\ "mask" \in DOMAIN cell => type = "ip"

\* C12: after normalizeValue, for every type of column, raw value and fields supplied
\* by upstream data, the cell has either cmp or both cmpMin and cmpMax, never both
\* shapes and never neither: cmpMin and cmpMax without cmp for intrange and ip, cmp
\* alone for the other types; mask exists on ip cells only.
C12_OneOrderingShape ==
  /\ call.op = "normalizeValue" => HasShapeOf(call.cell, call.column.type)
  /\ call.op = "normalizeValue again" => HasShapeOf(call.again, call.column.type)

\* C12 witness: a cell of the intrange column ports that came with cmp, cmpMin, cmpMax
\* and mask is normalized: the bounds supplied are kept, cmp and mask are gone
C12_Witness ==
  /\ call.op = "normalizeValue"
  /\ { "cmp", "cmpMin", "cmpMax", "mask" } \subseteq DOMAIN call.raw
  /\ call.column.type = "intrange"
  /\ call.cell.cmpMin = Num(1) /\ call.cell.cmpMax = Num(2)
  /\ DOMAIN call.cell \cap { "cmp", "mask" } = { }


\* the raw cell supplies the field f itself
Supplies(raw, f) == IsObject(raw) /\ f \in DOMAIN raw

\* v is a string in upper case
IsUpperString(v) == typeOf(v) = "String" /\ toUpperCase(v.s) = v.s

\* C13: after normalizeValue, for every type of column and every raw value (numeric
\* strings in int columns among them) that brings no match of its own, the match of
\* the cell is a string in upper case, the form the operator = compares by strict
\* equality with the literal in upper case.  The code breaks it: for a numeric string
\* in an int column match is the number parsed.
C13_MatchIsUpperString ==
  (call.op = "normalizeValue" /\ ~Supplies(call.raw, "match")) =>
    ("match" \in DOMAIN call.cell /\ IsUpperString(call.cell.match))


\* the raw value has a shape the type of the column accepts
AcceptedShape(value, type, rollOver) ==
  CASE type = "int" ->
         (typeOf(value) = "Number" /\ ~isNaN(value)) \/ (typeOf(value) = "String" /\ ~isNaN(value))
    [] type = "intrange" ->
         (typeOf(value) = "Number" /\ ~isNaN(value))
           \/ (typeOf(value) = "String" /\ intrangeExec(value.s).found)
    [] type = "ip" -> typeOf(value) = "String" /\ ipExec(value.s).found
    [] type = "date" ->
         (typeOf(value) = "Number" /\ JsLess(Num(0), value))
           \/ (typeOf(value) = "String" /\ IsDateFormat(value.s) /\ DateTime(value.s, rollOver) # NaN)
    [] type = "version" ->
         typeOf(value) = "String" \/ (typeOf(value) = "Number" /\ JsLess(Num(0), value))
    [] OTHER ->
         typeOf(value) = "String" \/ (typeOf(value) = "Number" /\ ~isNaN(value))
           \/ typeOf(value) = "Boolean"

\* the field f of a cell of a column of the type has the type of that field
CorrectlyTyped(f, v, type) ==
  CASE f \in { "html", "match" } -> typeOf(v) = "String"
    [] f = "cmp" ->
         /\ type \notin { "intrange", "ip" }
         /\ IF type \in { "int", "date" } THEN typeOf(v) = "Number" /\ ~isNaN(v)
            ELSE typeOf(v) = "String"
    [] f \in { "cmpMin", "cmpMax" } ->
         type \in { "intrange", "ip" } /\ typeOf(v) = "Number" /\ ~isNaN(v)

\* C14: for every type of column and every raw value of a shape the type accepts, a
\* field among html, match, cmp, cmpMin, cmpMax that upstream data supplies with the
\* right type is in the normalized cell as it was supplied.  The code breaks it: the
\* branches for a numeric string in an int column and for a number or boolean in a str
\* column assign html, cmp and match whatever the cell brought.
C14_SuppliedFieldsKept ==
  (/\ call.op = "normalizeValue"
   /\ Supplies(call.raw, "value")
   /\ AcceptedShape(call.raw.value, call.column.type, rollsOver)) =>
    \A f \in { "html", "match", "cmp", "cmpMin", "cmpMax" } :
      (Supplies(call.raw, f) /\ CorrectlyTyped(f, call.raw[f], call.column.type)) =>
        (f \in DOMAIN call.cell /\ call.cell[f] = call.raw[f])


\* the 32 bits of an address, the most significant first
QuadBits(quad) ==
  [ i \in 1..32 |-> (quad[((i - 1) \div 8) + 1] \div (2 ^ (7 - ((i - 1) % 8)))) % 2 ]

\* the number the bits from..to spell
RECURSIVE BitsSum(_, _, _)
BitsSum(bits, from, to) ==
  IF from > to THEN 0 ELSE 2 * BitsSum(bits, from, to - 1) + bits[to]

\* the unsigned 32-bit integer of 32 bits
BitsValue(bits) == NumW(BitsSum(bits, 1, 12), BitsSum(bits, 13, 32))

\* the mask of n bits, the network address and the broadcast address of an address
\* under that mask
PrefixMask(n) == BitsValue([ i \in 1..32 |-> IF i <= n THEN 1 ELSE 0 ])
NetworkOf(quad, n) == BitsValue([ i \in 1..32 |-> IF i <= n THEN QuadBits(quad)[i] ELSE 0 ])
BroadcastOf(quad, n) == BitsValue([ i \in 1..32 |-> IF i <= n THEN QuadBits(quad)[i] ELSE 1 ])

\* the cell is that of the address under the prefix length n
IsNetworkCell(cell, quad, n) ==
  /\ { "mask", "cmpMin", "cmpMax" } \subseteq DOMAIN cell
  /\ cell.mask = PrefixMask(n)
  /\ cell.cmpMin = NetworkOf(quad, n)
  /\ cell.cmpMax = BroadcastOf(quad, n)

\* C15: for every address a.b.c.d with octets 0..255 and every prefix length n in
\* 0..32, normalizing the ip raw value 'a.b.c.d/n' gives mask the mask of n bits, cmpMin
\* the network address and cmpMax the broadcast address, as unsigned 32-bit integers;
\* 'a.b.c.d' alone gives what /32 gives.  The code breaks it for n = 0, which it takes
\* for /32.
C15_IpNetworkAndBroadcast ==
  (call.op = "normalizeValue" /\ call.column.type = "ip") =>
    \A quad \in IpQuads :
      /\ \A n \in Prefixes :
           call.raw = Str(QuadText(quad) \o << "/" >> \o NatToString(n)) =>
             IsNetworkCell(call.cell, quad, n)
      /\ call.raw = Str(QuadText(quad)) => IsNetworkCell(call.cell, quad, 32)


\* the list cssClass of the cell holds the tag "bad-value"
TaggedBad(cell) ==
  \E i \in 1..Len(cell.cssClass.items) : cell.cssClass.items[i] = << "b", "a", "d", "-", "v", "a", "l", "u", "e" >>

\* the value cannot be read as an IPv4 address: it is no string, or a string that
\* holds no dotted quad
NoAddress(value) == typeOf(value) # "String" \/ ~ipExec(value.s).found

\* C16: an ip cell whose raw value cannot be read as an IPv4 address (and that brings
\* no bounds or mask of its own) is normalized to cmpMin = 0, cmpMax = 0 and mask = 0,
\* the equivalent of 0.0.0.0 /0, and carries the tag "bad-value".  The code breaks it:
\* a value that is no string gets -Infinity for both bounds and no mask, a string
\* without an address gets the mask of /32.
C16_BadIpIsZeroed ==
  (/\ call.op = "normalizeValue" /\ call.column.type = "ip"
   /\ \A f \in { "cmpMin", "cmpMax", "mask" } : ~Supplies(call.raw, f)
   /\ NoAddress(call.cell.value)) =>
    /\ { "cmpMin", "cmpMax", "mask" } \subseteq DOMAIN call.cell
    /\ call.cell.cmpMin = Num(0) /\ call.cell.cmpMax = Num(0) /\ call.cell.mask = Num(0)
    /\ TaggedBad(call.cell)


(***************************************************************************)
(* filterData called with one comparison of a field with a literal         *)
(***************************************************************************)

\* rows whose column src holds single addresses, networks of several sizes and values
\* that are no address
NetRows ==
  << Row(Num(1), Str(<< "1", "0", ".", "1", ".", "2", ".", "0", "/", "2", "4" >>), Str(<< "l", "a", "n" >>), Str(<< "t", "c", "p" >>), Num(80),
         Str(<< "1", ".", "0" >>), Str(<< "2", "0", "1", "9", "-", "0", "3", "-", "0", "1" >>)),
     Row(Num(2), Str(<< "1", "0", ".", "1", ".", "2", ".", "3" >>), Str(<< "w", "e", "b", "1" >>), Str(<< "t", "c", "p" >>), Num(443),
         Str(<< "1", ".", "1" >>), Str(<< "2", "0", "1", "8", "-", "0", "6", "-", "1", "5" >>)),
     Row(Num(3), Str(<< "1", "9", "2", ".", "1", "6", "8", ".", "0", ".", "0", "/", "2", "5", "5", ".", "2", "5", "5", ".", "0", ".", "0" >>), Str(<< "o", "f", "f", "i", "c", "e" >>), Str(<< "u", "d", "p" >>), Num(53),
         Str(<< "1", ".", "2" >>), Str(<< "2", "0", "2", "0", "-", "0", "2", "-", "2", "9" >>)),
     Row(Num(4), Null, Str(<< "n", "o", "n", "e" >>), Str(<< "u", "d", "p" >>), Num(22),
         Str(<< "2", ".", "0" >>), Str(<< "1", "9", "9", "9", "-", "0", "8", "-", "1", "1" >>)),
     Row(Num(5), Str(<< "b", "a", "n", "a", "n", "a" >>), Str(<< "f", "r", "u", "i", "t" >>), Str(<< "t", "c", "p" >>), Num(25),
         Str(<< "2", ".", "1" >>), Str(<< "2", "0", "3", "8", "-", "0", "1", "-", "1", "8" >>)) >>

\* the hashes the page is opened with: none, and one that sorts the rows and hides some
LiteralHashes ==
  { NoState, Hash(Undefined, Str(<< "i", "d" >>), Str(<< "d", "e", "s", "c" >>), Str(<< "p", "r", "o", "t", "o", " ", "=", " ", "t", "c", "p" >>)) }

\* literals that are written like addresses, well or badly
IpLiterals ==
  { QuadText(quad) : quad \in IpQuads }
    \cup { << "1", "0", ".", "1", ".", "2", ".", "7", "7" >>, << "1", "9", "2", ".", "1", "6", "8", ".", "4", "4", ".", "5" >>, << "1", "0", ".", "1", ".", "3", ".", "1" >>, << "1", ".", "2", ".", "3" >>, << "1", ".", "2", ".", "3", ".", "4", ".", "5" >>, << "b", "a", "n", "a", "n", "a" >>,
           << "1", ".", "2", ".", "3", ".", "x" >>, << "3", "0", "0", ".", "1", ".", "2", ".", "3" >>, << "1", ".", ".", "3", ".", "4" >>, << "1", "0", ".", "1", ".", "2", ".", "3", "/", "2", "4" >>, << "1", ".", "2", ".", "3", ".", "2", "5", "6" >> }

\* literals that are written like dates, well or badly
DateLiterals ==
  { << "2", "0", "1", "9", "-", "0", "3", "-", "0", "1" >>, << "2", "0", "1", "9", "-", "0", "2", "-", "3", "0" >>, << "2", "0", "1", "9", "-", "0", "2", "-", "2", "9" >>, << "2", "0", "2", "0", "-", "0", "2", "-", "2", "9" >>, << "1", "9", "9", "9", "-", "0", "8", "-", "1", "0" >>,
    << "1", "9", "9", "9", "-", "0", "8", "-", "1", "1" >>, << "2", "0", "3", "8", "-", "0", "1", "-", "1", "8" >>, << "2", "0", "3", "8", "-", "0", "1", "-", "1", "9" >>, << "2", "0", "1", "9", "-", "1", "3", "-", "0", "1" >>, << "2", "0", "1", "9", "-", "0", "0", "-", "1", "0" >>,
    << "2", "0", "1", "9", "-", "0", "4", "-", "3", "1" >>, << "2", "0", "1", "9", "-", "0", "1", "-", "3", "2" >>, << "2", "0", "1", "9", "-", "3", "-", "1" >>, << "s", "o", "o", "n" >>, << "2", "0", "1", "9", "0", "3", "0", "1" >>, << "1", "9", "7", "0", "-", "0", "1", "-", "0", "1" >>,
    << "2", "0", "1", "9", "-", "0", "3", "-", "0", "1", "x" >>, << "2", "0", "1", "8", "-", "0", "6", "-", "1", "5" >> }

Literals == IpLiterals \cup DateLiterals

\* the fields compared: one of each of the types ip, date and int
LiteralFields == { << "s", "r", "c" >>, << "l", "a", "s", "t", "u", "p", "d" >>, << "i", "d" >> }
LiteralOperators == { << "<" >>, << ">" >>, << "@", "=" >> }

\* the text of the comparison; the literal may be written in double quotes
ComparisonText(field, operator, literal, quoted) ==
  field \o << " " >> \o operator \o << " " >>
    \o (IF quoted THEN << "\"" >> \o literal \o << "\"" >> ELSE literal)

\* filterRPN as checkFilter(filterRPN) leaves it for the text of a filter
checkedRPN(filter, rollOver) ==
  checkFilter(tokensToRPN(getTokens(filter, filterTokensWord, filterTokensNonWord)).rpn,
              rollOver).rpn

InitLiteral ==
  /\ NoVersions
  /\ rollsOver \in BOOLEAN
  /\ events = 0
  /\ call = [ op |-> "init" ]
  /\ \E hash \in LiteralHashes : \E w \in init(NetRows, hash, rollsOver) : InWorld(w)

\* filterData is called with the comparison; call.rpn is filterRPN after checkFilter
CompareLiteral ==
  /\ call.op = "init"
  /\ \E field \in LiteralFields, operator \in LiteralOperators, literal \in Literals,
        quoted \in BOOLEAN :
       \E text \in { ComparisonText(field, operator, literal, quoted) } :
       \E r \in { filterData(text, display, data, rollsOver) } :
         /\ display' = r.display
         /\ outcome' = [ outcome |-> r.outcome, result |-> r.result,
                         checked |-> r.checked, filter |-> text ]
         /\ thrown' = (r.outcome = "thrown")
         /\ hung' = (r.outcome = "hang")
         /\ call' = [ op |-> "filterData", filter |-> text, field |-> field,
                      operator |-> operator, literal |-> literal, before |-> display,
                      rpn |-> checkedRPN(text, rollsOver) ]
  /\ UNCHANGED << data, rollsOver, filterInput, filterError, state, specsView, events >>

NextLiteral == CompareLiteral /\ UNCHANGED verVars

SpecLiteral == InitLiteral /\ [][NextLiteral]_vars


(***************************************************************************)
(* Claims about the literals of a filter                                   *)
(***************************************************************************)

\* the 32 low bits of a number that is not negative, the most significant first
ValueBits(v) ==
  [ i \in 1..32 |-> IF i <= 12 THEN (v.hi \div (2 ^ (12 - i))) % 2
                    ELSE (v.lo \div (2 ^ (32 - i))) % 2 ]

\* L AND the mask of the cell, bit by bit, read as an unsigned number; a cell that has
\* no mask masks every bit away
MaskedBy(literal, cell) ==
  IF "mask" \in DOMAIN cell /\ cell.mask.t = "number"
  THEN BitsValue([ i \in 1..32 |-> ValueBits(literal)[i] * ValueBits(cell.mask)[i] ])
  ELSE Num(0)

\* filterData has run the comparison 'field @= literal' of a field of type ip
SubnetCompared ==
  /\ call.op = "filterData" /\ call.operator = << "@", "=" >>
  /\ ColumnOf(call.field).type = "ip" /\ outcome.checked = Bool(TRUE)

\* C17: after the filter 'f @= L' on a column of type ip, a row is visible exactly when
\* cmpMin of its cell equals L AND the mask of that very cell, read as an unsigned
\* number of 32 bits: the literal brings no prefix of its own into the comparison.
C17_SubnetUsesCellMask ==
  SubnetCompared =>
    /\ outcome.outcome = "returned"
    /\ \A k \in 1..Len(display) :
         ~Hidden(display[k]) <=>
           (RowOf(display[k])[call.field].cmpMin = MaskedBy(call.rpn[2], RowOf(display[k])[call.field]))

\* C17 witness: 'src @= 192.168.44.5' shows the row of the network 192.168.0.0/16,
\* which was hidden before the call, and hides the row of the address 10.1.2.3
C17_Witness ==
  /\ SubnetCompared /\ call.literal = << "1", "9", "2", ".", "1", "6", "8", ".", "4", "4", ".", "5" >>
  /\ \E k \in 1..Len(display) :
       /\ RowOf(display[k])[<< "s", "r", "c" >>].value = Str(<< "1", "9", "2", ".", "1", "6", "8", ".", "0", ".", "0", "/", "2", "5", "5", ".", "2", "5", "5", ".", "0", ".", "0" >>)
       /\ ~Hidden(display[k]) /\ Hidden(call.before[k])
  /\ \E k \in 1..Len(display) :
       /\ RowOf(display[k])[<< "s", "r", "c" >>].value = Str(<< "1", "0", ".", "1", ".", "2", ".", "3" >>)
       /\ Hidden(display[k]) /\ ~Hidden(call.before[k])


\* the text is a run of one to three digits that spell a number of 0..255
IsOctet(s) == Len(s) \in 1..3 /\ AllDigits(s) /\ SmallInt(s) <= 255

\* the literal is a dotted quad a.b.c.d with four octets in 0..255
IsDottedQuad(literal) ==
  /\ Len(Split(literal, ".")) = 4
  /\ \A i \in 1..4 : IsOctet(Split(literal, ".")[i])

\* a * 2^24 + b * 2^16 + c * 2^8 + d of the dotted quad
QuadValue(literal) == BitsValue(QuadBits([ i \in 1..4 |-> SmallInt(Split(literal, ".")[i]) ]))

\* filterData has checked a comparison of a field of the type with a literal by one of
\* the operators
Compared(type, operators) ==
  /\ call.op = "filterData" /\ call.operator \in operators
  /\ ColumnOf(call.field).type = type

\* C18: for the operators <, > and @= on a column of type ip, checkFilter accepts every
\* literal that is a dotted quad of four octets in 0..255 and rewrites the operand to
\* a * 2^24 + b * 2^16 + c * 2^8 + d, and every other literal is rejected with the
\* string 'Bad IP address: ' followed by the literal.  The code breaks it: 0.0.0.0 is
\* rejected, and literals such as 300.1.2.3 and 1..3.4 are accepted.
C18_IpLiteralChecked ==
  Compared("ip", { << "<" >>, << ">" >>, << "@", "=" >> }) =>
    IF IsDottedQuad(call.literal)
    THEN outcome.checked = Bool(TRUE) /\ call.rpn[2] = QuadValue(call.literal)
    ELSE outcome.checked = Str(<< "B", "a", "d", " ", "I", "P", " ", "a", "d", "d", "r", "e", "s", "s", ":", " " >> \o call.literal)

\* the number of the day the text YYYY-MM-DD names, counted from 1970-01-01
DayNumber(s) ==
  DaysFromCivil(SmallInt(SubSeq(s, 1, 4)), SmallInt(SubSeq(s, 6, 7)), SmallInt(SubSeq(s, 9, 10)))

\* the text has the form YYYY-MM-DD
IsDateText(s) ==
  /\ Len(s) = 10 /\ s[5] = "-" /\ s[8] = "-"
  /\ \A i \in { 1, 2, 3, 4, 6, 7, 9, 10 } : IsDigit(s[i])

\* the text YYYY-MM-DD names a day of the calendar
IsCalendarDay(s) ==
  /\ SmallInt(SubSeq(s, 6, 7)) \in 1..12
  /\ SmallInt(SubSeq(s, 9, 10)) \in 1..DaysInMonth(SmallInt(SubSeq(s, 1, 4)), SmallInt(SubSeq(s, 6, 7)))

\* n * 100000 for a natural number n below 2^25, in limbs
TimesHundredThousand(n) ==
  LET a == n \div (2 ^ 20)
      b == (n \div 1024) % 1024
      c == n % 1024
      low == c * 672 + ((b * 672 + c * 97) % 1024) * 1024
      high == a * 672 + b * 97 + a * 97 * 1024 + (b * 672 + c * 97) \div 1024
  IN  NumW(high + low \div (2 ^ 20), low % (2 ^ 20))

\* the milliseconds from the epoch to noon UTC of the day
NoonMillis(days) == TimesHundredThousand(days * 864 + 432)

\* noon UTC of the day lies within [934366740000, 2147483647000]: the first such day is
\* 1999-08-11, the last 2038-01-18
InDateRange(days) ==
  days >= DaysFromCivil(1999, 8, 11) /\ days <= DaysFromCivil(2038, 1, 18)

\* the literal is a date the filter takes
IsSaneDate(literal) ==
  IsDateText(literal) /\ IsCalendarDay(literal) /\ InDateRange(DayNumber(literal))

\* C19: for the operators < and > on a column of type date, checkFilter accepts a
\* literal exactly when it has the form YYYY-MM-DD, names a real day of the calendar and
\* noon UTC of that day lies within [934366740000, 2147483647000] milliseconds; the
\* operand is then rewritten to that number of milliseconds; otherwise an error string
\* that ends with the literal is returned and display[] is left as it was.  The code
\* breaks it where the engine rolls a day past the end of its month over into the next
\* month: 2019-02-30 is then accepted as 2019-03-02.
C19_DateLiteralChecked ==
  Compared("date", { << "<" >>, << ">" >> }) =>
    IF IsSaneDate(call.literal)
    THEN outcome.checked = Bool(TRUE) /\ call.rpn[2] = NoonMillis(DayNumber(call.literal))
    ELSE /\ typeOf(outcome.checked) = "String"
         /\ Len(outcome.checked.s) >= Len(call.literal)
         /\ SubSeq(outcome.checked.s, Len(outcome.checked.s) - Len(call.literal) + 1,
                   Len(outcome.checked.s)) = call.literal
         /\ outcome.result = outcome.checked
         /\ display = call.before


(***************************************************************************)
(* tokensToRPN applied to the tokens of well-formed expressions            *)
(***************************************************************************)

\* the comparisons the expressions are made of, by their position in a chain
RPNTerms ==
  << Term(<< "i", "d" >>, << "=" >>, << "2" >>), Term(<< "p", "r", "o", "t", "o" >>, << "!", "=" >>, << "u", "d", "p" >>),
     Quoted(Term(<< "s", "r", "c", "N", "a", "m", "e" >>, << "~" >>, << "w", "e", "b", " ", "2" >>)), Term(<< "s", "r", "c" >>, << "@", "=" >>, << "1", "0", ".", "1", ".", "2", ".", "3" >>),
     Term(<< "p", "o", "r", "t", "s" >>, << "<" >>, << "1", "0", "0" >>) >>

\* the spellings of the connectives
RPNConnectives == { << "A", "N", "D" >>, << "O", "R" >>, << "a", "n", "d" >>, << "O", "r" >> }

\* chains of comparisons without groups
FlatChains ==
  UNION { { Chain([ i \in 1..n |-> RPNTerms[i] ], ops) : ops \in [ 1..(n - 1) -> RPNConnectives ] } :
          n \in 1..MaxTerms }

\* a comparison, or a group or negated group of two comparisons
RPNItems ==
  { RPNTerms[1], RPNTerms[2] }
    \cup { Group(o, Chain(<< RPNTerms[3], RPNTerms[4] >>, << c >>)) : o \in Opens, c \in Connectives }

\* chains of two and three such items, and groups within groups
NestedChains ==
  { Chain(items, ops) : items \in [ 1..2 -> RPNItems ], ops \in [ 1..1 -> Connectives ] }
  \cup { Chain(items, ops) : items \in [ 1..3 -> RPNItems ], ops \in [ 1..2 -> Connectives ] }
  \cup { Group(o, Chain(<< Group(p, Chain(<< RPNTerms[1], RPNTerms[2] >>, << c >>)), RPNTerms[3] >>, << d >>)) :
           o \in Opens, p \in Opens, c \in Connectives, d \in Connectives }

RPNExpressions == FlatChains \cup NestedChains

\* the tokens of an expression in the order they are written
RECURSIVE TokensOf(_)
TokensOf(e) ==
  CASE e.node = "term" ->
         << e.key, e.op, IF e.quoted THEN << "\"" >> \o e.lit \o << "\"" >> ELSE e.lit >>
    [] e.node = "group" -> << e.open >> \o TokensOf(e.body) \o << << ")" >> >>
    [] e.node = "chain" ->
         IF Len(e.items) = 1 THEN TokensOf(e.items[1])
         ELSE TokensOf(e.items[1]) \o << e.ops[1] >> \o TokensOf(Chain(Tail(e.items), Tail(e.ops)))

InitRPN ==
  /\ NoVersions
  /\ data = << >> /\ display = << >> /\ rollsOver = FALSE
  /\ filterInput = << >> /\ filterError = HiddenError
  /\ state = NoState /\ specsView = << >>
  /\ outcome = [ outcome |-> "none" ] /\ thrown = FALSE /\ hung = FALSE /\ events = 0
  /\ \E e \in RPNExpressions : call = [ op |-> "tokens", ast |-> e, tokens |-> TokensOf(e) ]

\* tokensToRPN(tokens)
ConvertTokens ==
  /\ call.op = "tokens"
  /\ \E r \in { tokensToRPN(call.tokens) } :
       /\ call' = [ op |-> "tokensToRPN", ast |-> call.ast, tokens |-> call.tokens,
                    rpn |-> r.rpn ]
       /\ hung' = r.hang
  /\ UNCHANGED << data, display, rollsOver, filterInput, filterError, state, specsView,
                  outcome, thrown, events >>

NextRPN == ConvertTokens /\ UNCHANGED verVars

SpecRPN == InitRPN /\ [][NextRPN]_vars

(***************************************************************************)
(* Claims about tokensToRPN                                                *)
(***************************************************************************)

\* what the evaluation of a postfix sequence keeps on its stack
Operand(s) == [ k |-> "operand", s |-> s ]
Truth(b) == [ k |-> "truth", b |-> b ]
Malformed == [ k |-> "malformed" ]

\* the comparison a token sequence field, operator, literal stands for
Atom(field, operator, literal) == << field, operator, literal >>

\* the comparisons of an expression
RECURSIVE AtomsOf(_)
AtomsOf(e) ==
  CASE e.node = "term" -> { Atom(TokensOf(e)[1], TokensOf(e)[2], TokensOf(e)[3]) }
    [] e.node = "group" -> AtomsOf(e.body)
    [] e.node = "chain" -> UNION { AtomsOf(e.items[i]) : i \in 1..Len(e.items) }

\* one token of a postfix sequence applied to the stack, the comparisons being true or
\* false as v tells
PostfixStep(stack, token, v) ==
  LET n == Len(stack)
      Two(ok, value) == IF n >= 2 /\ ok THEN Append(SubSeq(stack, 1, n - 2), value)
                        ELSE << Malformed >>
  IN  IF token \in Connectives
      THEN Two(n >= 2 /\ stack[n - 1].k = "truth" /\ stack[n].k = "truth",
               Truth(IF token = << "A", "N", "D" >> THEN stack[n - 1].b /\ stack[n].b
                     ELSE stack[n - 1].b \/ stack[n].b))
      ELSE IF token = << "!" >>
      THEN (IF n >= 1 /\ stack[n].k = "truth"
            THEN Append(SubSeq(stack, 1, n - 1), Truth(~stack[n].b)) ELSE << Malformed >>)
      ELSE IF IsOpString(token)
      THEN Two(n >= 2 /\ stack[n - 1].k = "operand" /\ stack[n].k = "operand"
                 /\ Atom(stack[n - 1].s, token, stack[n].s) \in DOMAIN v,
               Truth(v[Atom(stack[n - 1].s, token, stack[n].s)]))
      ELSE Append(stack, Operand(token))

\* the stack the evaluation of a postfix sequence ends with
RECURSIVE PostfixStack(_, _, _)
PostfixStack(rpn, stack, v) ==
  IF Len(rpn) = 0 \/ stack = << Malformed >> THEN stack
  ELSE PostfixStack(Tail(rpn), PostfixStep(stack, rpn[1].s, v), v)

\* the value of the infix expression: a comparison binds tighter than AND, AND tighter
\* than OR
RECURSIVE InfixValue(_, _)
InfixValue(e, v) ==
  CASE e.node = "term" -> v[Atom(TokensOf(e)[1], TokensOf(e)[2], TokensOf(e)[3])]
    [] e.node = "group" ->
         IF e.open = << "(" >> THEN InfixValue(e.body, v) ELSE ~InfixValue(e.body, v)
    [] e.node = "chain" ->
         \E i \in RunStarts(e) : \A k \in i..RunEnd(e, i) : InfixValue(e.items[k], v)

\* the postfix sequence of the tree the infix expression is parsed to, the operators of
\* equal precedence associating to the left: x1 x2 AND x3 AND within a run of items
\* joined by AND, r1 r2 OR r3 OR for the runs
RECURSIVE PostfixOf(_)
RECURSIVE RunPostfix(_, _, _)
RECURSIVE RunsPostfix(_, _)
PostfixOf(e) ==
  CASE e.node = "term" -> << TokensOf(e)[1], TokensOf(e)[3], TokensOf(e)[2] >>
    [] e.node = "group" ->
         PostfixOf(e.body) \o (IF e.open = << "(" >> THEN << >> ELSE << << "!" >> >>)
    [] e.node = "chain" -> RunsPostfix(e, Len(e.items))
\* the items from..to of a run
RunPostfix(e, from, to) ==
  IF from = to THEN PostfixOf(e.items[to])
  ELSE RunPostfix(e, from, to - 1) \o PostfixOf(e.items[to]) \o << << "A", "N", "D" >> >>
\* the runs that end at the item to or before it
RunsPostfix(e, to) ==
  LET from == CHOOSE i \in RunStarts(e) : RunEnd(e, i) = to
  IN  IF from = 1 THEN RunPostfix(e, 1, to)
      ELSE RunsPostfix(e, from - 1) \o RunPostfix(e, from, to) \o << << "O", "R" >> >>

\* C20: for the tokens of a well-formed infix expression with balanced parentheses
\* tokensToRPN returns, and the postfix sequence it returns evaluates, whatever the
\* comparisons evaluate to, to the value of the infix expression parsed with the
\* comparison operators binding tighter than AND, AND tighter than OR, AND and OR in
\* any case of letters; it is the postfix sequence of the tree in which operators of
\* equal precedence associate to the left.
C20_PostfixAgreesWithInfix ==
  call.op = "tokensToRPN" =>
    /\ ~hung
    /\ \A v \in [ AtomsOf(call.ast) -> BOOLEAN ] :
         PostfixStack(call.rpn, << >>, v) = << Truth(InfixValue(call.ast, v)) >>
    /\ [ i \in 1..Len(call.rpn) |-> call.rpn[i].s ] = PostfixOf(call.ast)

\* C20 witness: the tokens of 'id = 2 Or proto != udp and srcName ~ "web 2"' are
\* converted with the AND before the OR, both in upper case
C20_Witness ==
  /\ call.op = "tokensToRPN" /\ ~hung
  /\ call.ast = Chain(<< RPNTerms[1], RPNTerms[2], RPNTerms[3] >>, << << "O", "r" >>, << "a", "n", "d" >> >>)
  /\ [ i \in 1..Len(call.rpn) |-> call.rpn[i].s ]
       = << << "i", "d" >>, << "2" >>, << "=" >>, << "p", "r", "o", "t", "o" >>, << "u", "d", "p" >>, << "!", "=" >>, << "s", "r", "c", "N", "a", "m", "e" >>, << "\"", "w", "e", "b", " ", "2", "\"" >>, << "~" >>,
            << "A", "N", "D" >>, << "O", "R" >> >>


\* the groups of an expression, itself included
RECURSIVE GroupsOf(_)
GroupsOf(e) ==
  CASE e.node = "term" -> { }
    [] e.node = "group" -> { e } \cup GroupsOf(e.body)
    [] e.node = "chain" -> UNION { GroupsOf(e.items[i]) : i \in 1..Len(e.items) }

\* the tokens "!" of a postfix sequence
Bangs(rpn) == { i \in 1..Len(rpn) : rpn[i] = Str(<< "!" >>) }

\* the negated groups of an expression, counted once for each place they stand at
RECURSIVE NegatedCount(_)
RECURSIVE NegatedCountOf(_, _)
NegatedCount(e) ==
  CASE e.node = "term" -> 0
    [] e.node = "group" -> (IF e.open = << "(" >> THEN 0 ELSE 1) + NegatedCount(e.body)
    [] e.node = "chain" -> NegatedCountOf(e, Len(e.items))
NegatedCountOf(e, n) ==
  IF n = 0 THEN 0 ELSE NegatedCountOf(e, n - 1) + NegatedCount(e.items[n])

\* part is found in rpn from the position p on
OccursAt(rpn, part, p) ==
  p + Len(part) - 1 <= Len(rpn) /\ SubSeq(rpn, p, p + Len(part) - 1) = part

\* C21: for a well-formed expression X, tokensToRPN emits for '!(' X ')' and for
\* 'NOT(' X ')' the postfix sequence of X with one token '!' right behind it, and for
\* '(' X ')' the postfix sequence of X with no token '!'; within an expression every
\* group, nested or not, has the postfix sequence of its body in the output, followed
\* by '!' when the group is negated, and the output has one '!' for each negated group.
C21_NegatedGroupEmitsBang ==
  call.op = "tokensToRPN" =>
    /\ call.ast.node = "group" =>
         call.rpn = tokensToRPN(TokensOf(call.ast.body)).rpn
                      \o (IF call.ast.open = << "(" >> THEN << >> ELSE << Str(<< "!" >>) >>)
    /\ \A g \in GroupsOf(call.ast) :
         \E p \in 1..Len(call.rpn) :
           /\ OccursAt(call.rpn, tokensToRPN(TokensOf(g.body)).rpn, p)
           /\ g.open # << "(" >> =>
                OccursAt(call.rpn, tokensToRPN(TokensOf(g.body)).rpn \o << Str(<< "!" >>) >>, p)
    /\ Cardinality(Bangs(call.rpn)) = NegatedCount(call.ast)

\* C21 witness: 'NOT(!(id = 2 OR proto != udp) AND srcName ~ "web 2")' is converted to a
\* sequence with a '!' behind the inner group and another one at the end
C21_Witness ==
  /\ call.op = "tokensToRPN" /\ ~hung
  /\ call.ast = Group(<< "N", "O", "T", "(" >>, Chain(<< Group(<< "!", "(" >>, Chain(<< RPNTerms[1], RPNTerms[2] >>, << << "O", "R" >> >>)),
                                          RPNTerms[3] >>, << << "A", "N", "D" >> >>))
  /\ [ i \in 1..Len(call.rpn) |-> call.rpn[i].s ]
       = << << "i", "d" >>, << "2" >>, << "=" >>, << "p", "r", "o", "t", "o" >>, << "u", "d", "p" >>, << "!", "=" >>, << "O", "R" >>, << "!" >>,
            << "s", "r", "c", "N", "a", "m", "e" >>, << "\"", "w", "e", "b", " ", "2", "\"" >>, << "~" >>, << "A", "N", "D" >>, << "!" >> >>


(***************************************************************************)
(* getTokens applied to one expression written with and without spaces     *)
(***************************************************************************)

\* comparisons by every symbol operator
TokenTerms ==
  << Term(<< "i", "d" >>, << "=" >>, << "2" >>), Term(<< "i", "d" >>, << "=", "=" >>, << "1" >>), Term(<< "p", "r", "o", "t", "o" >>, << "!", "=" >>, << "u", "d", "p" >>),
     Term(<< "s", "r", "c", "N", "a", "m", "e" >>, << "~" >>, << "^", "w", "e", "b" >>), Term(<< "s", "r", "c", "N", "a", "m", "e" >>, << "!", "~" >>, << "1", "$" >>),
     Term(<< "s", "r", "c" >>, << "@", "=" >>, << "1", "0", ".", "1", ".", "2", ".", "7", "7" >>), Term(<< "p", "o", "r", "t", "s" >>, << "<" >>, << "1", "0", "0" >>),
     Term(<< "v", "e", "r" >>, << ">" >>, << "1", ".", "3" >>), Quoted(Term(<< "p", "r", "o", "t", "o" >>, << "=" >>, << "T", "C", "P" >>)) >>

\* the comparisons, groups of one comparison, chains of two comparisons, and chains of
\* a group and a comparison
TokenExpressions ==
  { TokenTerms[i] : i \in 1..Len(TokenTerms) }
    \cup { Group(o, TokenTerms[i]) : o \in Opens, i \in { 1, 3, 9 } }
    \cup { Chain(<< TokenTerms[i], TokenTerms[j] >>, << c >>) :
             i \in { 1, 3, 9 }, j \in { 2, 5, 7, 9 }, c \in { << "A", "N", "D" >>, << "o", "r" >> } }
    \cup { Chain(<< Group(o, Chain(<< TokenTerms[1], TokenTerms[3] >>, << << "O", "R" >> >>)), TokenTerms[i] >>, << << "A", "N", "D" >> >>) :
             o \in Opens, i \in { 6, 8 } }
    \cup { Chain(<< TokenTerms[i], Group(o, TokenTerms[5]) >>, << << "O", "R" >> >>) :
             o \in Opens, i \in { 2, 9 } }

\* the token is a symbol operator
IsSymbolOperator(token) == IsOpString(token) /\ ~IsWordLike(token)

\* white space between the tokens left and right can be left out: one of them is a
\* symbol operator, or a parenthesis stands on that side
IsOptionalGap(left, right) ==
  \/ IsSymbolOperator(left) \/ IsSymbolOperator(right)
  \/ left[Len(left)] = "(" \/ left = << ")" >> \/ right = << "(" >> \/ right = << ")" >>

\* the places between two tokens where white space can be left out
OptionalGaps(tokens) ==
  { i \in 1..(Len(tokens) - 1) : IsOptionalGap(tokens[i], tokens[i + 1]) }

\* the choices of the places written without white space: none, all, a single one,
\* all but one
GapChoices(tokens) ==
  { { }, OptionalGaps(tokens) }
    \cup { { g } : g \in OptionalGaps(tokens) }
    \cup { OptionalGaps(tokens) \ { g } : g \in OptionalGaps(tokens) }

\* the tokens written one after the other, with a space at every place but those of tight
RECURSIVE Written(_, _, _)
Written(tokens, tight, i) ==
  IF i > Len(tokens) THEN << >>
  ELSE tokens[i] \o (IF i = Len(tokens) \/ i \in tight THEN << >> ELSE << " " >>)
         \o Written(tokens, tight, i + 1)

InitTokens ==
  /\ NoVersions
  /\ data = << >> /\ display = << >> /\ rollsOver = FALSE
  /\ filterInput = << >> /\ filterError = HiddenError
  /\ state = NoState /\ specsView = << >>
  /\ outcome = [ outcome |-> "none" ] /\ thrown = FALSE /\ hung = FALSE /\ events = 0
  /\ \E e \in TokenExpressions : \E tight \in GapChoices(TokensOf(e)) :
       call = [ op |-> "text", ast |-> e, tight |-> tight,
                text |-> Written(TokensOf(e), tight, 1),
                spaced |-> Written(TokensOf(e), { }, 1) ]

\* getTokens(input, filterTokens.word, filterTokens.nonWord) for the text and for the
\* same tokens with a space between any two
SplitText ==
  /\ call.op = "text"
  /\ call' = [ op |-> "getTokens", ast |-> call.ast, tight |-> call.tight,
               text |-> call.text, spaced |-> call.spaced,
               tokens |-> getTokens(call.text, filterTokensWord, filterTokensNonWord),
               spacedTokens |-> getTokens(call.spaced, filterTokensWord, filterTokensNonWord) ]
  /\ UNCHANGED << data, display, rollsOver, filterInput, filterError, state, specsView,
                  outcome, thrown, hung, events >>

NextTokens == SplitText /\ UNCHANGED verVars

SpecTokens == InitTokens /\ [][NextTokens]_vars

(***************************************************************************)
(* Claims about getTokens                                                  *)
(***************************************************************************)

\* C22: for a filter of known field names, symbol operators, parentheses and literals
\* getTokens returns the same tokens whether or not white space stands around the symbol
\* operators and the parentheses, and an operator of two characters is one token: the
\* tokens are those the filter was written from.  The code breaks it: a field name
\* behind a connective that follows an unquoted literal is not split from the operator
\* written right behind it.
C22_SpacesAroundSymbols ==
  call.op = "getTokens" =>
    /\ call.tokens = call.spacedTokens
    /\ call.spacedTokens = TokensOf(call.ast)


(***************************************************************************)
(* The filter of the documented scenario on rows of dates                  *)
(***************************************************************************)

\* the scenario of the specification, written for the date column lastupd of the table
DateFilter == << "N", "O", "T", "(", "l", "a", "s", "t", "u", "p", "d", " ", ">", " ", "2", "0", "1", "8", "-", "1", "2", "-", "0", "1", " ", "O", "R", " ", "l", "a", "s", "t", "u", "p", "d", " ", "<", " ", "2", "0", "1", "8", "-", "0", "1", "-", "0", "1", ")" >>

TwoDigits(n) == IF n < 10 THEN << "0" >> \o NatToString(n) ELSE NatToString(n)

\* a moment: a day of the calendar, the seconds of the day, and the form the row holds
\* it in
Stamp(y, m, d, secs, form) == [ y |-> y, m |-> m, d |-> d, secs |-> secs, form |-> form ]

StampDays == { << 2017, 12, 31 >>, << 2018, 1, 1 >>, << 2018, 6, 15 >>, << 2018, 12, 1 >>, << 2018, 12, 2 >> }
\* 00:00:00, 08:00:00, 12:00:00 and 15:00:00
StampSeconds == { 0, 8 * 3600, 12 * 3600, 15 * 3600 }

DateStamps == { Stamp(day[1], day[2], day[3], 0, "date") : day \in StampDays }
Stamps ==
  DateStamps
    \cup { Stamp(day[1], day[2], day[3], secs, form) :
             day \in StampDays, secs \in StampSeconds, form \in { "time", "seconds", "millis" } }

StampDay(st) == DaysFromCivil(st.y, st.m, st.d)
StampDateText(st) == NatToString(st.y) \o << "-" >> \o TwoDigits(st.m) \o << "-" >> \o TwoDigits(st.d)
StampTimeText(st) ==
  TwoDigits(st.secs \div 3600) \o << ":" >> \o TwoDigits((st.secs \div 60) % 60) \o << ":" >>
    \o TwoDigits(st.secs % 60)

\* the raw value of the column: a date-only string, a timestamp with the time of the
\* day, the Unix time in seconds, the Unix time in milliseconds
StampValue(st) ==
  CASE st.form = "date" -> Str(StampDateText(st))
    [] st.form = "time" -> Str(StampDateText(st) \o << "T" >> \o StampTimeText(st) \o << "Z" >>)
    [] st.form = "seconds" -> Num(StampDay(st) * 86400 + st.secs)
    [] st.form = "millis" -> NumMul(Num(StampDay(st) * 86400 + st.secs), 1000)

StampRows(a, b) ==
  << Row(Num(1), Str(<< "1", "0", ".", "1", ".", "2", ".", "3" >>), Str(<< "w", "e", "b", "1" >>), Str(<< "t", "c", "p" >>), Num(80), Str(<< "1", ".", "0" >>), StampValue(a)),
     Row(Num(2), Str(<< "1", "0", ".", "1", ".", "2", ".", "4" >>), Str(<< "w", "e", "b", "2" >>), Str(<< "u", "d", "p" >>), Num(443), Str(<< "1", ".", "1" >>), StampValue(b)) >>

InitDates ==
  /\ NoVersions
  /\ rollsOver \in BOOLEAN
  /\ events = 0
  /\ \E a \in Stamps, b \in DateStamps :
       /\ call = [ op |-> "init", stamps |-> << a, b >> ]
       /\ \E hash \in LiteralHashes : \E w \in init(StampRows(a, b), hash, rollsOver) : InWorld(w)

\* filterData(DateFilter)
FilterDates ==
  /\ call.op = "init"
  /\ \E r \in { filterData(DateFilter, display, data, rollsOver) } :
       /\ display' = r.display
       /\ outcome' = [ outcome |-> r.outcome, result |-> r.result,
                       checked |-> r.checked, filter |-> DateFilter ]
       /\ thrown' = (r.outcome = "thrown")
       /\ hung' = (r.outcome = "hang")
       /\ call' = [ op |-> "filterData", filter |-> DateFilter, stamps |-> call.stamps,
                    before |-> display ]
  /\ UNCHANGED << data, rollsOver, filterInput, filterError, state, specsView, events >>

NextDates == FilterDates /\ UNCHANGED verVars

SpecDates == InitDates /\ [][NextDates]_vars

\* the day of the moment lies within the closed interval [2018-01-01, 2018-12-01]
InScenarioInterval(st) ==
  StampDay(st) >= DaysFromCivil(2018, 1, 1) /\ StampDay(st) <= DaysFromCivil(2018, 12, 1)

\* C23: on a date column the filter 'NOT(date > 2018-12-01 OR date < 2018-01-01)'
\* leaves visible exactly the rows whose date lies within the closed interval
\* [2018-01-01, 2018-12-01] and hides the others, whether the row holds the date as a
\* date-only string, as a timestamp with the time of the day or as a Unix time.  The
\* code breaks it: the literals stand for noon UTC of their day, so a moment of
\* 2018-12-01 after noon and a moment of 2018-01-01 before noon are hidden.
C23_ScenarioSelectsInterval ==
  call.op = "filterData" =>
    /\ outcome.checked = Bool(TRUE) /\ outcome.outcome = "returned"
    /\ \A k \in 1..Len(display) :
         ~Hidden(display[k]) <=> InScenarioInterval(call.stamps[(display[k] % hiddenBit) + 1])


(***************************************************************************)
(* Claims about checkFilter and runFilter                                  *)
(***************************************************************************)

\* the result of an earlier operation on the stack of an evaluation
Result == [ k |-> "result" ]

\* the evaluation of the postfix sequence comes to a comparison whose left operand is
\* no key of a column: another literal, or the result of an earlier operation
RECURSIVE ComparesNoColumn(_, _)
ComparesNoColumn(rpn, stack) ==
  LET n == Len(stack)
      token == rpn[1].s
  IN  IF Len(rpn) = 0 THEN FALSE
      ELSE IF IsOpString(token)
      THEN /\ n >= 2
           /\ \/ /\ token \notin Connectives
                 /\ ~(stack[n - 1].k = "operand" /\ stack[n - 1].s \in ColumnKeys)
              \/ ComparesNoColumn(Tail(rpn), Append(SubSeq(stack, 1, n - 2), Result))
      ELSE IF token = << "!" >>
      THEN n >= 1 /\ ComparesNoColumn(Tail(rpn), Append(SubSeq(stack, 1, n - 1), Result))
      ELSE ComparesNoColumn(Tail(rpn), Append(stack, Operand(token)))

\* filterData has come to checkFilter(filterRPN): the filter has three tokens or more
\* and tokensToRPN has returned
FilterChecked ==
  /\ call.op = "filterData"
  /\ Len(getTokens(call.filter, filterTokensWord, filterTokensNonWord)) > 2
  /\ outcome.outcome # "hang"

\* C24: checkFilter returns an error string whenever a comparison operator has a left
\* operand that is no declared column key, the result of an earlier operation included
\* (as in 'a = 1 = 2'); so after a successful validation runFilter reads data[row][o1]
\* for declared column keys o1 only and no exception leaves it.  The code breaks it:
\* the field name is not checked when the left operand is the result of an earlier
\* operation, and runFilter then throws a TypeError.
C24_LeftOperandIsColumn ==
  FilterChecked =>
    /\ ComparesNoColumn(tokensToRPN(getTokens(call.filter, filterTokensWord, filterTokensNonWord)).rpn, << >>)
         => typeOf(outcome.checked) = "String"
    /\ outcome.checked = Bool(TRUE) => outcome.outcome = "returned"


\* the token of a postfix sequence is taken for an operator by the loops of checkFilter
\* and runFilter
TakenForOperator(token) == HasOp(token) \/ token = Str(<< "!" >>)

\* C25: when checkFilter returns true for a postfix sequence, runFilter takes for
\* operands in the rewritten sequence exactly the tokens checkFilter took for operands,
\* whatever the text of a literal, a quoted operator word or symbol included; so every
\* pop finds an operand, one value remains on the stack for every row, and runFilter
\* returns true, never 'Filter syntax error (4)'.  The code breaks it: checkFilter
\* writes a quoted literal into the sequence without its quotes, and runFilter takes
\* "OR" and "=" written so for operators.
C25_ReplayAgreesWithCheck ==
  (FilterChecked /\ outcome.checked = Bool(TRUE)) =>
    /\ \A i \in 1..Len(checkedRPN(call.filter, rollsOver)) :
         TakenForOperator(checkedRPN(call.filter, rollsOver)[i])
           <=> TakenForOperator(tokensToRPN(getTokens(call.filter, filterTokensWord, filterTokensNonWord)).rpn[i])
    /\ outcome.outcome = "returned"
    /\ outcome.result = Bool(TRUE)


\* the entry of display[] at the position k is what runFilter makes of the entry that
\* stood there before the call, and no exception stood in the way
RowRecomputed(rpn, k) ==
  /\ ~runFilter(rpn, << call.before[k] >>, data).thrown
  /\ runFilter(rpn, << call.before[k] >>, data).result = Bool(TRUE)
  /\ display[k] = runFilter(rpn, << call.before[k] >>, data).display[1]

\* C26: a filter submission is atomic for display[]: whenever filterData returns or
\* an exception leaves it, either the visibility bit of every row has been computed
\* anew from the filter or no entry of display[] has changed; only a part of the rows
\* carrying the new result is never seen.
C26_FilterIsAtomic ==
  (call.op = "filterData" /\ outcome.outcome # "hang") =>
    \/ display = call.before
    \/ /\ outcome.checked = Bool(TRUE) /\ Len(display) = Len(call.before)
       /\ \A k \in 1..Len(display) : RowRecomputed(checkedRPN(call.filter, rollsOver), k)

\* C26 witness: a validated filter has run on a page with hidden rows, has shown a
\* row that was hidden and hidden one that was shown
C26_Witness ==
  /\ call.op = "filterData" /\ outcome.checked = Bool(TRUE) /\ outcome.outcome = "returned"
  /\ \E k \in 1..Len(display) : Hidden(call.before[k]) /\ ~Hidden(display[k])
  /\ \E k \in 1..Len(display) : ~Hidden(call.before[k]) /\ Hidden(display[k])


(***************************************************************************)
(* Claims about the passes over the cells                                  *)
(***************************************************************************)

\* the step runs preRenderBody: the listener of "updateView" always does, the listener
\* of "popstate" when the view has changed
PassRuns ==
  \/ call'.op = "updateView"
  \/ call'.op = "popstate" /\ state'.view # state.view

\* the fields of a normalized cell that are present and of the type of their column
ConsistentFields(cell, column) ==
  { f \in { "html", "match", "cmp", "cmpMin", "cmpMax" } :
      f \in DOMAIN cell /\ CorrectlyTyped(f, cell[f], column.type) }

\* the pass over the cells leaves alone every derived field that is present and of the
\* right type: it assigns none of them, and each holds after the pass what it held
PassKeepsCells ==
  /\ Len(data') = Len(data)
  /\ \A r \in 1..Len(data) : \A key \in ColumnKeys :
       /\ ConsistentFields(data[r][key], ColumnOf(key))
            \cap normalizeValueAssigns(data[r][key], ColumnOf(key), rollsOver) = { }
       /\ \A f \in ConsistentFields(data[r][key], ColumnOf(key)) :
            f \in DOMAIN data'[r][key] /\ data'[r][key][f] = data[r][key][f]

\* C27: across init, view changes (updateView) and history navigation (popstate) the
\* derived fields of a cell are computed once: a later pass over a cell that is
\* normalized does not derive anew or overwrite a derived field that is present and
\* of the right type.  The code breaks it: the branches for a numeric string in an int
\* column, for a malformed value and for a value of a wrong type assign html, match
\* and the ordering keys on every pass, without a test of what the cell holds.
C27_CellsNormalizedOnce == [][PassRuns => PassKeepsCells]_vars


(***************************************************************************)
(* The examples documented above version2hash                              *)
(***************************************************************************)

\* the version grp[1].grp[2]...-suf build
Dashed(grp, suf, build) == [ grp |-> grp, dash |-> TRUE, suf |-> suf, build |-> build ]

\* the four examples of the comment above version2hash, each with the hash the comment
\* gives for it
DocumentedExamples ==
  { [ ver  |-> Dashed(<< << "1" >>, << "2" >>, << "?" >>, << "9", "8", "7", "6", "5", "4", "3" >>, << "o", "m", "g" >>, << "9" >> >>, << "b", "U", "i", "L", "d", "-" >>, << "7" >>),
      hash |-> << " ", " ", " ", " ", " ", "1", " ", " ", " ", " ", " ", "2", " ", " ", " ", " ", " ", "?", "9", "8", "7", "6", "5", "4", " ", " ", " ", "o", "m", "g", " ", " ", " ", " ", " ", "9", "b", "u", " ", " ", " ", " ", " ", "7" >> ],
    [ ver  |-> PlainVersion(<< << "1" >>, << "1", "3" >>, << "7" >> >>),
      hash |-> << " ", " ", " ", " ", " ", "1", " ", " ", " ", " ", "1", "3", " ", " ", " ", " ", " ", "7", " ", " ", " ", " ", " ", " ", " ", " ", " ", " ", " ", " ", " ", " ", " ", " ", " ", " ", "~", "~", " ", " ", " ", " ", " ", " " >> ],
    [ ver  |-> Dashed(<< << "1" >>, << "1", "3" >>, << "7" >> >>, << "r", "c" >>, << "1", "2" >>),
      hash |-> << " ", " ", " ", " ", " ", "1", " ", " ", " ", " ", "1", "3", " ", " ", " ", " ", " ", "7", " ", " ", " ", " ", " ", " ", " ", " ", " ", " ", " ", " ", " ", " ", " ", " ", " ", " ", "r", "c", " ", " ", " ", " ", "1", "2" >> ],
    [ ver  |-> Dashed(<< << "1" >>, << "1", "3" >>, << "7" >> >>, << "a", "-", "z" >>, << "3" >>),
      hash |-> << " ", " ", " ", " ", " ", "1", " ", " ", " ", " ", "1", "3", " ", " ", " ", " ", " ", "7", " ", " ", " ", " ", " ", " ", " ", " ", " ", " ", " ", " ", " ", " ", " ", " ", " ", " ", "a", "~", " ", " ", " ", " ", "z", "3" >> ] }

\* the examples with one part taken away or written in another way
ExampleVariants ==
  { PlainVersion(<< << "1" >>, << "2" >>, << "?" >>, << "9", "8", "7", "6", "5", "4", "3" >>, << "o", "m", "g" >>, << "9" >> >>),
    Dashed(<< << "1" >>, << "2" >>, << "?" >>, << "9", "8", "7", "6", "5", "4", "3" >>, << "o", "m", "g" >>, << "9" >> >>, << "b", "u", "i", "l", "d", "-" >>, << "7" >>),
    Dashed(<< << "1" >>, << "1", "3" >>, << "7" >> >>, << "r", "c" >>, << >>),
    Dashed(<< << "1" >>, << "1", "3" >>, << "7" >> >>, << "a" >>, << "3" >>),
    Dashed(<< << "1" >>, << "1", "3" >>, << "7" >> >>, << "a", "z" >>, << "3" >>) }

ExampleVersions == { e.ver : e \in DocumentedExamples } \cup ExampleVariants

InitExamples ==
  /\ NoPage
  /\ verA \in ExampleVersions
  /\ verB \in ExampleVersions
  /\ hashA = << >>
  /\ hashB = << >>
  /\ verPc = "input"

NextExamples == HashVersions

SpecExamples == InitExamples /\ [][NextExamples]_vars

\* the hash the comment documents for the version v, for an example of the comment
DocumentedHash(v) == (CHOOSE e \in DocumentedExamples : e.ver = v).hash

IsExample(v) == v \in { e.ver : e \in DocumentedExamples }

\* C28: for each of the four examples documented above it, version2hash returns the
\* documented string of 44 characters: for '1.13.7' the three groups aligned to the
\* right, the padding, '~~' and six spaces; for '1.13.7-rc12' the suffix 'rc' and the
\* build field '    12'; for '1.13.7-a-z3' the suffix 'a~' and the build field
\* '    z3'; for '1.2.?.9876543.omg.9-bUiLd-7' the suffix 'bu' and the build field
\* '     7'.  The code breaks it for the last two: the suffix is not put in lower
\* case, and the second dash is one more character of the suffix.
C28_DocumentedExamples ==
  verPc = "hashed"
    => /\ IsExample(verA) => hashA = DocumentedHash(verA)
       /\ IsExample(verB) => hashB = DocumentedHash(verB)


(***************************************************************************)
(* Claims about history navigation                                         *)
(***************************************************************************)

\* the step is a navigation to a state without 'sort' and without 'filter'
NavigatesToPlainState ==
  /\ call'.op = "popstate"
  /\ ~ToBoolean(state'.sort) /\ ~ToBoolean(state'.filter)

\* display[] as init fills it: every row visible, in the order of the data
LoadOrder(rows) == [ i \in 1..Len(rows) |-> i - 1 ]

\* C29: resetDataFilterSort restores filtering and sorting to the initial state: after
\* a navigation (popstate) to a state without 'sort' and without 'filter', whatever
\* filters and sorts came before, every row is visible and display[] is in the order
\* of the load, 0, 1, ..., n-1.  The code breaks it: resetDataFilterSort clears the
\* hidden bits and the classes of the headers and leaves the order of display[] as
\* the last sort made it.
C29_NavigationRestoresLoadOrder ==
  [][NavigatesToPlainState => display' = LoadOrder(data')]_vars


(***************************************************************************)
(* filterData called with one comparison by < or >                         *)
(***************************************************************************)

\* rows whose columns ports and src hold ranges and single values, and a row of values
\* of the wrong type or form
RangeRows ==
  << Row(Num(1), Str(<< "1", "0", ".", "1", ".", "2", ".", "0", "/", "2", "4" >>), Str(<< "l", "a", "n" >>), Str(<< "t", "c", "p" >>), Str(<< "8", "0", "-", "9", "0" >>),
         Str(<< "1", ".", "0" >>), Str(<< "2", "0", "1", "9", "-", "0", "3", "-", "0", "1" >>)),
     Row(Num(2), Str(<< "1", "0", ".", "1", ".", "2", ".", "3" >>), Str(<< "w", "e", "b", "1" >>), Str(<< "t", "c", "p" >>), Num(443),
         Str(<< "1", ".", "1", "3" >>), Str(<< "2", "0", "1", "8", "-", "0", "6", "-", "1", "5" >>)),
     Row(Num(3), Str(<< "1", "9", "2", ".", "1", "6", "8", ".", "0", ".", "0", "/", "2", "5", "5", ".", "2", "5", "5", ".", "0", ".", "0" >>), Str(<< "o", "f", "f", "i", "c", "e" >>), Str(<< "u", "d", "p" >>), Str(<< "2", "2", "-", "9", "0" >>),
         Str(<< "1", ".", "2" >>), Num(1550000000)),
     Row(Str(<< "7" >>), Null, Num(5), Str(<< "u", "d", "p" >>), Str(<< "n", "/", "a" >>),
         Null, Str(<< "s", "o", "o", "n" >>)) >>

\* literals for the columns of every type: numbers inside, at the ends of and outside
\* the ranges, addresses, dates, a version, words
RangeLiterals ==
  { << "8", "5" >>, << "2", "2" >>, << "9", "0" >>, << "4", "4", "3" >>, << "2" >>, << "1", "0", ".", "1", ".", "2", ".", "3" >>, << "1", "0", ".", "1", ".", "2", ".", "7", "7" >>, << "1", "9", "2", ".", "1", "6", "8", ".", "4", "4", ".", "5" >>,
    << "2", "0", "1", "9", "-", "0", "3", "-", "0", "1" >>, << "2", "0", "1", "8", "-", "0", "6", "-", "1", "5" >>, << "1", ".", "2" >>, << "t", "c", "p" >>, << "o", "f", "f", "i", "c", "e" >> }

RangeOperators == { << "<" >>, << ">" >> }

InitRange ==
  /\ NoVersions
  /\ rollsOver \in BOOLEAN
  /\ events = 0
  /\ call = [ op |-> "init" ]
  /\ \E hash \in LiteralHashes : \E w \in init(RangeRows, hash, rollsOver) : InWorld(w)

\* filterData is called with the comparison; call.rpn is filterRPN after checkFilter
CompareRange ==
  /\ call.op = "init"
  /\ \E field \in ColumnKeys, operator \in RangeOperators, literal \in RangeLiterals :
       \E text \in { ComparisonText(field, operator, literal, FALSE) } :
       \E r \in { filterData(text, display, data, rollsOver) } :
         /\ display' = r.display
         /\ outcome' = [ outcome |-> r.outcome, result |-> r.result,
                         checked |-> r.checked, filter |-> text ]
         /\ thrown' = (r.outcome = "thrown")
         /\ hung' = (r.outcome = "hang")
         /\ call' = [ op |-> "filterData", filter |-> text, field |-> field,
                      operator |-> operator, literal |-> literal, before |-> display,
                      rpn |-> checkedRPN(text, rollsOver) ]
  /\ UNCHANGED << data, rollsOver, filterInput, filterError, state, specsView, events >>

NextRange == CompareRange /\ UNCHANGED verVars

SpecRange == InitRange /\ [][NextRange]_vars

(***************************************************************************)
(* Claims about the operators < and >                                      *)
(***************************************************************************)

IsRanged(field) == ColumnOf(field).type \in { "intrange", "ip" }

\* filterData has run the validated comparison 'field operator literal'
RangeCompared(operator) ==
  /\ call.op = "filterData" /\ call.operator = operator /\ outcome.checked = Bool(TRUE)

\* the end of the range of the cell (cmpMax for "max", cmpMin for "min") in a ranged
\* column, cmp in a scalar column
EndOf(cell, field, end) ==
  IF IsRanged(field) THEN (IF end = "max" THEN cell.cmpMax ELSE cell.cmpMin) ELSE cell.cmp

====
